---- MODULE Spec2Model ----
(***************************************************************************)
(* Model of loopy (src/loopy.js, second program of the file, lines         *)
(* 351-1467): the persona scheduler, the turn generation / retry loop,     *)
(* the conversation window trimming and the workflow stage machine.        *)
(*                                                                         *)
(* Text is modelled as a sequence of one-character strings so that         *)
(* trimming, line splitting, label matching and option extraction are      *)
(* computed the way the JavaScript computes them.                          *)
(***************************************************************************)
EXTENDS Integers, Sequences, FiniteSets, TLC

(***************************************************************************)
(* Characters and elementary string functions                              *)
(***************************************************************************)
LowerSeq ==
  <<"a","b","c","d","e","f","g","h","i","j","k","l","m",
    "n","o","p","q","r","s","t","u","v","w","x","y","z">>

UpperSeq ==
  <<"A","B","C","D","E","F","G","H","I","J","K","L","M",
    "N","O","P","Q","R","S","T","U","V","W","X","Y","Z">>

DigitSet == {"0","1","2","3","4","5","6","7","8","9"}

LowerSet == {LowerSeq[i] : i \in 1..26}

UpperSet == {UpperSeq[i] : i \in 1..26}

LetterSet == LowerSet \cup UpperSet

\* the characters JavaScript's \s and String.prototype.trim treat as blank
WhiteSet == {" ", "\n", "\t"}

\* String.prototype.toLowerCase
ToLower(s) ==
  [i \in 1..Len(s) |->
     IF s[i] \in UpperSet THEN LowerSeq[CHOOSE k \in 1..26 : UpperSeq[k] = s[i]] ELSE s[i]]

\* the text s from position i to the end
Drop(s, i) == SubSeq(s, i, Len(s))

RECURSIVE TrimStart(_)
TrimStart(s) ==
  IF s # <<>> /\ s[1] \in WhiteSet THEN TrimStart(Tail(s)) ELSE s

RECURSIVE TrimEnd(_)
TrimEnd(s) ==
  IF s # <<>> /\ s[Len(s)] \in WhiteSet THEN TrimEnd(SubSeq(s, 1, Len(s) - 1)) ELSE s

\* String.prototype.trim
Trim(s) == TrimEnd(TrimStart(s))

\* String.prototype.split('\n')
RECURSIVE SplitLines(_)
SplitLines(s) ==
  IF \E i \in 1..Len(s) : s[i] = "\n"
    THEN LET i == CHOOSE k \in 1..Len(s) : s[k] = "\n" /\ \A m \in 1..(k - 1) : s[m] # "\n"
         IN  <<SubSeq(s, 1, i - 1)>> \o SplitLines(Drop(s, i + 1))
    ELSE <<s>>

\* s.startsWith(p)
StartsWith(s, p) == Len(s) >= Len(p) /\ SubSeq(s, 1, Len(p)) = p

\* s.endsWith(p)
EndsWith(s, p) == Len(s) >= Len(p) /\ SubSeq(s, Len(s) - Len(p) + 1, Len(s)) = p

\* s.includes(p)
Includes(s, p) == \E i \in 1..(Len(s) - Len(p) + 1) : SubSeq(s, i, i + Len(p) - 1) = p

\* the characters of s that satisfy keep, in order (a replace(/[^...]/g, ''))
RECURSIVE FilterChars(_, _)
FilterChars(s, keep) ==
  IF s = <<>> THEN <<>>
  ELSE (IF s[1] \in keep THEN <<s[1]>> ELSE <<>>) \o FilterChars(Tail(s), keep)

\* s.replace(/\s+/g, ' '): every run of blanks becomes one space
RECURSIVE CollapseWs(_)
CollapseWs(s) ==
  IF \E i \in 1..Len(s) : s[i] \in WhiteSet
    THEN LET i == CHOOSE k \in 1..Len(s) :
                    s[k] \in WhiteSet /\ \A m \in 1..(k - 1) : s[m] \notin WhiteSet
         IN  SubSeq(s, 1, i - 1) \o <<" ">> \o CollapseWs(TrimStart(Drop(s, i)))
    ELSE s

\* length of the longest prefix of s made of characters of cls
RECURSIVE RunLen(_, _)
RunLen(s, cls) ==
  IF s # <<>> /\ s[1] \in cls THEN 1 + RunLen(Tail(s), cls) ELSE 0

Min2(a, b) == IF a <= b THEN a ELSE b

Max2(a, b) == IF a >= b THEN a ELSE b


(***************************************************************************)
(* Configuration (environment variables with their parsing)                *)
(***************************************************************************)
\* Number(process.env.KEEP_CYCLES || 6), here configured to 1
KEEP_CYCLES == 1

\* Number(process.env.MAX_INVALID_TURN_RETRIES || 3)
MAX_INVALID_TURN_RETRIES == 3

\* Math.max(1, Number(process.env.WORKFLOW_CYCLE_WINDOW || 3)), here configured to 2
WORKFLOW_CYCLE_WINDOW == Max2(1, 2)

WORKFLOW_ENABLED == TRUE

MODERATOR_STRICT_MODE == TRUE

DISCARD_MODE == "transcript_only"

WORKFLOW_STAGES == <<"brainstorm", "cluster", "shortlist", "decide", "next_action">>

(***************************************************************************)
(* State                                                                   *)
(***************************************************************************)
VARIABLES
  backend,                 \* the responses the model behind URL can give
  allPersonaFiles,         \* the sorted listing of PERSONA_DIR read at startup
  advisorFile,             \* ADVISOR_FILE: the advisor notice, blank when absent
  lastAdvisorTime,         \* 0, or 1 once a notice was injected
  file,                    \* FILE: the persisted turn history
  wfFile,                  \* WORKFLOW_STATE_FILE: the persisted workflow state
  personas,                \* the rotation list of the current cycle
  personaIndex,            \* the cursor into personas (0-based)
  workflowState,
  pendingWorkflowCycles,
  pc,                      \* position of the main loop
  turns,                   \* the iteration's in-memory copy of the history
  speaker,                 \* speaker of the iteration
  cycleCompletedThisTurn,
  attempt,                 \* loop variable of the retry loop
  accepted,                \* null (<<>>) or <<accepted fullResponse>>
  auditLog,                \* history: audit lines of the retry loop in progress
  lastNote,                \* history: the log line that closed the last iteration
  backendCalls,            \* history: backend requests made in this iteration
  cycleLog,                \* history: persona files served in the current cycle
  evaluated,               \* history: did this iteration run the evaluator
  cyclesSinceEval,         \* history: cycles completed since evaluation/reset
  cyclesSinceEvent,        \* history: cycles completed since the counter was reset
  cyclesDone,              \* history: completed cycles (bounds the run)
  narratorCount,           \* history: Narrator turns injected (bounds the run)
  workflowTurns,           \* history: Workflow turns appended since an empty FILE was read
  probe                    \* harness of the pure-function specifications

loopVars ==
  <<backend, allPersonaFiles, advisorFile, lastAdvisorTime, file, wfFile, personas, personaIndex, workflowState, pendingWorkflowCycles,
    pc, turns, speaker, cycleCompletedThisTurn, attempt, accepted>>

historyVars ==
  <<auditLog, lastNote, backendCalls, cycleLog, evaluated, cyclesSinceEval, cyclesSinceEvent,
    cyclesDone, narratorCount, workflowTurns>>

vars == <<loopVars, historyVars, probe>>

(***************************************************************************)
(* Persona files and speaker names                                         *)
(***************************************************************************)
DotTxt == <<".","t","x","t">>

AliceFile == <<"a","l","i","c","e">> \o DotTxt

BobFile == <<"b","o","b">> \o DotTxt

ModeratorFile == <<"m","o","d","e","r","a","t","o","r">> \o DotTxt

SecretaryFile == <<"s","e","c","r","e","t","a","r","y">> \o DotTxt

\* Special personas that always go last, in this order
SPECIAL_PERSONA_ORDER == <<ModeratorFile, SecretaryFile>>

SeqToSet(q) == {q[i] : i \in 1..Len(q)}

\* Array.prototype.indexOf, 0-based, -1 when absent
IndexOf(q, x) ==
  IF \E i \in 1..Len(q) : q[i] = x
    THEN (CHOOSE i \in 1..Len(q) : q[i] = x /\ \A m \in 1..(i - 1) : q[m] # x) - 1
    ELSE -1

\* Array.prototype.filter
RECURSIVE FilterSeq(_, _)
FilterSeq(q, keep) ==
  IF q = <<>> THEN <<>>
  ELSE (IF q[1] \in keep THEN <<q[1]>> ELSE <<>>) \o FilterSeq(Tail(q), keep)

availableSpecialPersonas == FilterSeq(SPECIAL_PERSONA_ORDER, SeqToSet(allPersonaFiles))

\* fileName.replace(/\.txt$/i, '')
StripTxt(fileName) ==
  IF EndsWith(ToLower(fileName), DotTxt)
    THEN SubSeq(fileName, 1, Len(fileName) - 4)
    ELSE fileName

personaFileToSpeaker(fileName) ==
  LET baseName == StripTxt(fileName)
  IN  IF baseName = <<>> THEN <<>>
      ELSE <<IF baseName[1] \in LowerSet
               THEN UpperSeq[CHOOSE k \in 1..26 : LowerSeq[k] = baseName[1]]
               ELSE baseName[1]>> \o Tail(baseName)

SpeakerOrDefault(fileName) ==
  IF personaFileToSpeaker(fileName) = <<>>
    THEN <<"S","p","e","a","k","e","r">>
    ELSE personaFileToSpeaker(fileName)

personaSpeakers == {personaFileToSpeaker(f) : f \in SeqToSet(allPersonaFiles)} \ {<<>>}

SeedName == <<"s","e","e","d">>

NarratorName == <<"N","a","r","r","a","t","o","r">>

WorkflowName == <<"W","o","r","k","f","l","o","w">>

ModeratorName == <<"M","o","d","e","r","a","t","o","r">>

knownSpeakerNames ==
  ({ToLower(StripTxt(f)) : f \in SeqToSet(allPersonaFiles)}
     \cup {ToLower(NarratorName), ToLower(WorkflowName)}) \ {<<>>}

maxPersonaTurns == KEEP_CYCLES * Cardinality(personaSpeakers)

(***************************************************************************)
(* shufflePersonas: Fisher-Yates on the regular personas, driven by the    *)
(* random picks js (js[i] is the value of j drawn when the loop index is   *)
(* i), then the special personas sorted by their configured position.      *)
(***************************************************************************)
\* the picks Math.floor(Math.random() * (i + 1)) can produce for n regulars
ShufflePicks(n) == {js \in [1..(n - 1) -> 0..(n - 1)] : \A i \in 1..(n - 1) : js[i] <= i}

RECURSIVE FisherYates(_, _, _)
FisherYates(regular, i, js) ==
  IF i <= 0 THEN regular
  ELSE FisherYates([regular EXCEPT ![i + 1] = regular[js[i] + 1],
                                   ![js[i] + 1] = regular[i + 1]], i - 1, js)

\* special.sort((a, b) => specialOrder.indexOf(a) - specialOrder.indexOf(b))
RECURSIVE SortByOrder(_, _)
SortByOrder(special, specialOrder) ==
  IF special = <<>> THEN <<>>
  ELSE LET k == CHOOSE a \in 1..Len(special) :
                  \A b \in 1..Len(special) :
                     IndexOf(specialOrder, special[a]) <= IndexOf(specialOrder, special[b])
       IN  <<special[k]>>
             \o SortByOrder(SubSeq(special, 1, k - 1) \o Drop(special, k + 1), specialOrder)

RegularOf(allPersonas, specialOrder) ==
  FilterSeq(allPersonas, SeqToSet(allPersonas) \ SeqToSet(specialOrder))

SpecialOf(allPersonas, specialOrder) ==
  FilterSeq(allPersonas, SeqToSet(specialOrder))

\* a rotation that lets the special personas speak first
shufflePersonasSpecialsFirst(allPersonas, specialOrder, js) ==
  LET special == SpecialOf(allPersonas, specialOrder)
      regular == RegularOf(allPersonas, specialOrder)
  IN  SortByOrder(special, specialOrder) \o FisherYates(regular, Len(regular) - 1, js)

\* a rotation that ends with a regular persona: the first one is moved last
shufflePersonasRegularLast(allPersonas, specialOrder, js) ==
  LET special == SpecialOf(allPersonas, specialOrder)
      regular == RegularOf(allPersonas, specialOrder)
      list == FisherYates(regular, Len(regular) - 1, js) \o SortByOrder(special, specialOrder)
  IN  IF list = <<>> THEN list ELSE Tail(list) \o <<list[1]>>

shufflePersonas(allPersonas, specialOrder, js) ==
  LET special == SpecialOf(allPersonas, specialOrder)
      regular == RegularOf(allPersonas, specialOrder)
  IN  FisherYates(regular, Len(regular) - 1, js) \o SortByOrder(special, specialOrder)

\* the random picks one call of shufflePersonas consumes
PicksFor(allPersonas, specialOrder) ==
  ShufflePicks(Len(RegularOf(allPersonas, specialOrder)))

(***************************************************************************)
(* hasTranscriptContamination                                              *)
(***************************************************************************)
\* [A-Za-z0-9_ ]
NameClass == LetterSet \cup DigitSet \cup {"_", " "}

\* TRANSCRIPT_MARKER = /^---$|^\[.*\]:$/m : some line is exactly --- or is
\* of the form [anything]:
TRANSCRIPT_MARKER(text) ==
  \E k \in 1..Len(SplitLines(text)) :
     LET l == SplitLines(text)[k]
     IN  \/ l = <<"-","-","-">>
         \/ Len(l) >= 3 /\ l[1] = "[" /\ EndsWith(l, <<"]",":">>)

commonNonSpeakerLabels ==
  { <<"n","o","t","e">>, <<"i","d","e","a">>, <<"i","d","e","a","s">>, <<"o","p","t","i","o","n">>, <<"o","p","t","i","o","n","s">>, <<"s","u","m","m","a","r","y">>,
    <<"a","c","t","i","o","n">>, <<"a","c","t","i","o","n","s">>, <<"p","r","o","s">>, <<"c","o","n","s">>, <<"p","l","a","n">>, <<"r","e","s","u","l","t">>,
    <<"o","u","t","p","u","t">>, <<"r","e","a","s","o","n">> }

\* one row of the Levenshtein table: prev is row i-1, acc the part of row i
\* already computed (acc[j+1] is dp[i][j])
RECURSIVE LevRow(_, _, _, _, _)
LevRow(a, b, i, prev, acc) ==
  LET j == Len(acc)
  IN  IF j > Len(b) THEN acc
      ELSE LET cost == IF a[i] = b[j] THEN 0 ELSE 1
               v == Min2(Min2(prev[j + 1] + 1, acc[j] + 1), prev[j] + cost)
           IN  LevRow(a, b, i, prev, Append(acc, v))

RECURSIVE LevRows(_, _, _, _)
LevRows(a, b, i, prev) ==
  IF i > Len(a) THEN prev[Len(b) + 1]
  ELSE LevRows(a, b, i + 1, LevRow(a, b, i, prev, <<i>>))

editDistance(a, b) == LevRows(a, b, 1, [j \in 1..(Len(b) + 1) |-> j - 1])

AbsDiff(x, y) == IF x >= y THEN x - y ELSE y - x

\* a label test without the set of excluded common labels
isSpeakerLikeLabelNoExclusions(labelRaw, known) ==
  LET compact == Trim(CollapseWs(labelRaw))
      normalized == FilterChars(ToLower(compact), LowerSet)
  IN  IF compact = <<>> THEN FALSE
      ELSE IF normalized = <<>> THEN FALSE
      ELSE IF normalized \in known THEN TRUE
      ELSE \E k \in known :
             /\ Len(k) >= 3
             /\ AbsDiff(Len(k), Len(normalized)) <= 2
             /\ editDistance(normalized, k) <= 2

isSpeakerLikeLabel(labelRaw, known) ==
  LET compact == Trim(CollapseWs(labelRaw))
      normalized == FilterChars(ToLower(compact), LowerSet)
  IN  IF compact = <<>> THEN FALSE
      ELSE IF normalized = <<>> \/ normalized \in commonNonSpeakerLabels THEN FALSE
      ELSE IF normalized \in known THEN TRUE
      ELSE \E k \in known :
             /\ Len(k) >= 3
             /\ AbsDiff(Len(k), Len(normalized)) <= 2
             /\ editDistance(normalized, k) <= 2

\* a detector that does not look for bold labels
BoldLabelLineIgnored(line) == FALSE

\* /^\*\*[A-Za-z][A-Za-z0-9_ ]{1,25}\*\*:\s*/ on a trimmed line
BoldLabelLine(line) ==
  /\ StartsWith(line, <<"*","*">>)
  /\ Len(line) >= 3
  /\ line[3] \in LetterSet
  /\ LET n == RunLen(Drop(line, 3), NameClass)
     IN  n >= 2 /\ n <= 26 /\ StartsWith(Drop(line, 3 + n), <<"*","*",":">>)

\* the part of a trimmed line left after the optional (?:[-*]\s+) prefix
AfterBullet(line) ==
  IF Len(line) >= 2 /\ line[1] \in {"-", "*"} /\ line[2] \in WhiteSet
    THEN TrimStart(Drop(line, 2))
    ELSE line

\* /^(?:[-*]\s+)?([A-Za-z][A-Za-z0-9_ ]{1,25}):\s+/ : does the line match
HasLabelMatch(line) ==
  LET body == AfterBullet(line)
      n == RunLen(body, NameClass)
  IN  /\ body # <<>>
      /\ body[1] \in LetterSet
      /\ n >= 2 /\ n <= 26
      /\ Len(body) >= n + 2
      /\ body[n + 1] = ":"
      /\ body[n + 2] \in WhiteSet

\* the capture group of the label pattern
LabelOf(line) == SubSeq(AfterBullet(line), 1, RunLen(AfterBullet(line), NameClass))

hasTranscriptContamination(text, known) ==
  \/ TRANSCRIPT_MARKER(text)
  \/ \E k \in 1..Len(SplitLines(text)) :
        LET line == Trim(SplitLines(text)[k])
        IN  /\ line # <<>>
            /\ \/ BoldLabelLine(line)
               \/ HasLabelMatch(line) /\ isSpeakerLikeLabel(LabelOf(line), known)

(***************************************************************************)
(* generateAttempt: the validation of one streamed backend response        *)
(***************************************************************************)
generateAttempt(fullResponse, known) ==
  LET trimmed == Trim(fullResponse)
  IN  IF trimmed = <<>>
        THEN [ok |-> FALSE, reason |-> "empty-response", fullResponse |-> <<>>]
      ELSE IF DISCARD_MODE = "transcript_only" /\ hasTranscriptContamination(fullResponse, known)
        THEN [ok |-> FALSE, reason |-> "multi-speaker-transcript", fullResponse |-> <<>>]
      ELSE [ok |-> TRUE, reason |-> "", fullResponse |-> trimmed]

(***************************************************************************)
(* trimTurnsByPersonaWindow                                                *)
(***************************************************************************)
\* a walk that cuts only when the count exceeds the maximum
RECURSIVE TrimWalkKeepsOneMore(_, _, _, _, _)
TrimWalkKeepsOneMore(ts, maxTurns, speakers, i, seenPersonaTurns) ==
  IF i < 1 THEN ts
  ELSE IF ts[i].speaker \in speakers
    THEN IF seenPersonaTurns + 1 > maxTurns
           THEN Drop(ts, i)
           ELSE TrimWalkKeepsOneMore(ts, maxTurns, speakers, i - 1, seenPersonaTurns + 1)
    ELSE TrimWalkKeepsOneMore(ts, maxTurns, speakers, i - 1, seenPersonaTurns)

\* a walk that cuts just after the persona turn that would exceed the maximum
RECURSIVE TrimWalkCutsAfter(_, _, _, _, _)
TrimWalkCutsAfter(ts, maxTurns, speakers, i, seenPersonaTurns) ==
  IF i < 1 THEN ts
  ELSE IF ts[i].speaker \in speakers
    THEN IF seenPersonaTurns + 1 > maxTurns
           THEN Drop(ts, i + 1)
           ELSE TrimWalkCutsAfter(ts, maxTurns, speakers, i - 1, seenPersonaTurns + 1)
    ELSE TrimWalkCutsAfter(ts, maxTurns, speakers, i - 1, seenPersonaTurns)

\* the loop "for (i = ts.length - 1; i >= 0; i -= 1)", i 1-based here
RECURSIVE TrimWalk(_, _, _, _, _)
TrimWalk(ts, maxTurns, speakers, i, seenPersonaTurns) ==
  IF i < 1 THEN ts
  ELSE IF ts[i].speaker \in speakers
    THEN IF seenPersonaTurns + 1 >= maxTurns
           THEN Drop(ts, i)
           ELSE TrimWalk(ts, maxTurns, speakers, i - 1, seenPersonaTurns + 1)
    ELSE TrimWalk(ts, maxTurns, speakers, i - 1, seenPersonaTurns)

trimTurnsByPersonaWindow(ts, maxTurns, speakers) ==
  IF Len(ts) = 0 THEN <<>>
  ELSE IF maxTurns <= 0 \/ Cardinality(speakers) = 0 THEN ts
  ELSE TrimWalk(ts, maxTurns, speakers, Len(ts), 0)

(***************************************************************************)
(* Moderator output normalisation                                          *)
(***************************************************************************)
\* \w
WordClass == LetterSet \cup DigitSet \cup {"_"}

\* /\b(w)\b/i for a phrase w that begins and ends with a letter
ContainsWord(text, w) ==
  LET t == ToLower(text)
  IN  \E i \in 1..(Len(t) - Len(w) + 1) :
         /\ SubSeq(t, i, i + Len(w) - 1) = w
         /\ (i = 1 \/ t[i - 1] \notin WordClass)
         /\ (i + Len(w) > Len(t) \/ t[i + Len(w)] \notin WordClass)

ContainsAnyWord(text, words) == \E w \in words : ContainsWord(text, w)

\* text.split(/[.!?]+/): the pieces between runs of sentence punctuation
RECURSIVE SplitSentences(_)
SplitSentences(s) ==
  IF \E i \in 1..Len(s) : s[i] \in {".", "!", "?"}
    THEN LET i == CHOOSE k \in 1..Len(s) :
                    s[k] \in {".", "!", "?"} /\ \A m \in 1..(k - 1) : s[m] \notin {".", "!", "?"}
             rest == Drop(s, i)
         IN  <<SubSeq(s, 1, i - 1)>>
               \o SplitSentences(Drop(rest, RunLen(rest, {".", "!", "?"}) + 1))
    ELSE <<s>>

\* .map((s) => s.trim()).filter(Boolean)
RECURSIVE TrimmedNonEmpty(_)
TrimmedNonEmpty(parts) ==
  IF parts = <<>> THEN <<>>
  ELSE (IF Trim(parts[1]) # <<>> THEN <<Trim(parts[1])>> ELSE <<>>)
         \o TrimmedNonEmpty(Tail(parts))

sentenceCount(text) == Len(TrimmedNonEmpty(SplitSentences(text)))

processHint ==
  { <<"d","e","c","i","d","e">>, <<"d","e","c","i","s","i","o","n">>, <<"a","g","r","e","e">>, <<"c","o","n","s","e","n","s","u","s">>, <<"p","i","c","k">>, <<"c","h","o","o","s","e">>,
    <<"v","o","t","e">>, <<"s","h","o","r","t","l","i","s","t">>, <<"n","a","r","r","o","w">>, <<"m","o","v","e"," ","o","n">>, <<"s","w","i","t","c","h">>,
    <<"n","e","x","t"," ","s","t","e","p">>, <<"f","o","c","u","s">> }

contentPitch ==
  { <<"i","d","e","a">>, <<"l","a","u","n","c","h">>, <<"b","u","i","l","d">>, <<"c","r","e","a","t","e">>, <<"p","r","o","d","u","c","t">>, <<"p","l","a","t","f","o","r","m">>,
    <<"s","e","r","v","i","c","e">>, <<"c","o","u","r","s","e">>, <<"m","a","r","k","e","t","p","l","a","c","e">>, <<"a","p","p">>, <<"s","u","b","s","c","r","i","p","t","i","o","n">> }

\* a nudge test that lets three sentences through
isModeratorProcessNudgeThreeSentences(text) ==
  IF ~ContainsAnyWord(text, processHint) THEN FALSE
  ELSE IF ContainsAnyWord(text, contentPitch) THEN FALSE
  ELSE IF sentenceCount(text) < 1 \/ sentenceCount(text) > 3 THEN FALSE
  ELSE Len(text) <= 260

isModeratorProcessNudge(text) ==
  IF ~ContainsAnyWord(text, processHint) THEN FALSE
  ELSE IF ContainsAnyWord(text, contentPitch) THEN FALSE
  ELSE IF sentenceCount(text) < 1 \/ sentenceCount(text) > 2 THEN FALSE
  ELSE Len(text) <= 260

NO_INTERVENTION == <<"N","O","_","I","N","T","E","R","V","E","N","T","I","O","N">>

\* /^NO_INTERVENTION\.?$/i
IsNoIntervention(text) ==
  ToLower(text) \in {ToLower(NO_INTERVENTION), ToLower(NO_INTERVENTION) \o <<".">>}

normalizeModeratorOutput(text) ==
  LET trimmed == Trim(text)
  IN  IF ~MODERATOR_STRICT_MODE THEN trimmed
      ELSE IF IsNoIntervention(trimmed) THEN NO_INTERVENTION
      ELSE IF isModeratorProcessNudge(trimmed) THEN trimmed
      ELSE NO_INTERVENTION

(***************************************************************************)
(* Workflow state: options, sanitising                                     *)
(***************************************************************************)
\* one character replaced by a blank when it is in the class
BlankOut(s, cls) == [i \in 1..Len(s) |-> IF s[i] \in cls THEN " " ELSE s[i]]

BlankOutExcept(s, cls) == [i \in 1..Len(s) |-> IF s[i] \in cls THEN s[i] ELSE " "]

normalizeOption(text) ==
  LET lowered == ToLower(text)
      a == BlankOut(lowered, {"`", "\"", "'", "*", "_", "[", "]", "(", ")", "{", "}"})
      b == BlankOutExcept(a, LowerSet \cup DigitSet \cup WhiteSet \cup {"-"})
  IN  Trim(CollapseWs(b))

\* locked_decision is null or a string: the empty sequence or <<string>>
NullDecision == <<>>

ReasonInitial == <<"i","n","i","t","i","a","l">>

defaultWorkflowState ==
  [ stage |-> "brainstorm",
    cycle_count_in_stage |-> 0,
    candidate_options |-> <<>>,
    shortlist_options |-> <<>>,
    locked_decision |-> NullDecision,
    last_transition_reason |-> ReasonInitial,
    decide_window_failures |-> 0 ]

\* the loop of cleanOptionList from item i on; cleaned doubles as the record
\* of the keys already seen
RECURSIVE CleanFrom(_, _, _, _)
CleanFrom(value, limit, i, cleaned) ==
  IF i > Len(value) THEN cleaned
  ELSE LET option == CollapseWs(Trim(value[i]))
           key == normalizeOption(option)
           seen == {normalizeOption(cleaned[k]) : k \in 1..Len(cleaned)}
       IN  IF Len(option) < 8 THEN CleanFrom(value, limit, i + 1, cleaned)
           ELSE IF key = <<>> \/ key \in seen THEN CleanFrom(value, limit, i + 1, cleaned)
           ELSE IF Len(cleaned) + 1 >= limit THEN Append(cleaned, option)
           ELSE CleanFrom(value, limit, i + 1, Append(cleaned, option))

\* a cleaning that keeps every option it is given room for
cleanOptionListNoLimit(value, limit) == CleanFrom(value, limit + Len(value), 1, <<>>)

cleanOptionList(value, limit) == CleanFrom(value, limit, 1, <<>>)

sanitizeWorkflowState(state) ==
  [ stage |-> IF state.stage \in SeqToSet(WORKFLOW_STAGES) THEN state.stage
              ELSE defaultWorkflowState.stage,
    cycle_count_in_stage |-> Max2(0, state.cycle_count_in_stage),
    candidate_options |-> cleanOptionList(state.candidate_options, 12),
    shortlist_options |-> cleanOptionList(state.shortlist_options, 3),
    locked_decision |->
      IF state.locked_decision # NullDecision /\ Trim(state.locked_decision[1]) # <<>>
        THEN <<Trim(state.locked_decision[1])>>
        ELSE NullDecision,
    last_transition_reason |->
      IF Trim(state.last_transition_reason) # <<>>
        THEN Trim(state.last_transition_reason)
        ELSE defaultWorkflowState.last_transition_reason,
    decide_window_failures |-> Max2(0, state.decide_window_failures) ]

(***************************************************************************)
(* Option extraction from turn text                                        *)
(***************************************************************************)
\* line.match(/^[-*]\s+(.+)$/)?.[1] on a trimmed line, <<>> when no match
BulletCapture(line) ==
  IF Len(line) >= 3 /\ line[1] \in {"-", "*"} /\ line[2] \in WhiteSet
    THEN TrimStart(Drop(line, 2))
    ELSE <<>>

\* line.match(/^\d+[.)]\s+(.+)$/)?.[1] on a trimmed line, <<>> when no match
NumberedCapture(line) ==
  LET d == RunLen(line, DigitSet)
  IN  IF /\ d >= 1
         /\ Len(line) >= d + 3
         /\ line[d + 1] \in {".", ")"}
         /\ line[d + 2] \in WhiteSet
        THEN TrimStart(Drop(line, d + 2))
        ELSE <<>>

\* /^no confirmed decisions yet\.?$/i
IsNoDecisionsYet(candidate) ==
  ToLower(candidate) \in { <<"n","o"," ","c","o","n","f","i","r","m","e","d"," ","d","e","c","i","s","i","o","n","s"," ","y","e","t">>, <<"n","o"," ","c","o","n","f","i","r","m","e","d"," ","d","e","c","i","s","i","o","n","s"," ","y","e","t",".">> }

\* the first loop of extractOptionsFromText over the lines
RECURSIVE ListOptions(_)
ListOptions(lines) ==
  IF lines = <<>> THEN <<>>
  ELSE LET line == Trim(lines[1])
           candidate == IF BulletCapture(line) # <<>> THEN BulletCapture(line)
                        ELSE NumberedCapture(line)
           keep == /\ line # <<>>
                   /\ candidate # <<>>
                   /\ ~IsNoDecisionsYet(candidate)
                   /\ Len(candidate) >= 8 /\ Len(candidate) <= 220
       IN  (IF keep THEN <<Trim(CollapseWs(candidate))>> ELSE <<>>) \o ListOptions(Tail(lines))

\* /^(i agree|we should choose|no intervention)/i
IsMetaSentence(sentence) ==
  \E p \in { <<"i"," ","a","g","r","e","e">>, <<"w","e"," ","s","h","o","u","l","d"," ","c","h","o","o","s","e">>, <<"n","o"," ","i","n","t","e","r","v","e","n","t","i","o","n">> } :
     StartsWith(ToLower(sentence), p)

\* the second loop of extractOptionsFromText: at most 3 plain sentences
RECURSIVE SentenceOptions(_, _)
SentenceOptions(sentences, options) ==
  IF sentences = <<>> THEN options
  ELSE LET sentence == sentences[1]
       IN  IF Len(sentence) < 25 \/ Len(sentence) > 180
             THEN SentenceOptions(Tail(sentences), options)
           ELSE IF IsMetaSentence(sentence)
             THEN SentenceOptions(Tail(sentences), options)
           ELSE IF Len(options) + 1 >= 3 THEN Append(options, sentence)
           ELSE SentenceOptions(Tail(sentences), Append(options, sentence))

extractOptionsFromText(text) ==
  LET options == ListOptions(SplitLines(text))
  IN  IF Len(options) > 0 THEN options
      ELSE SentenceOptions(TrimmedNonEmpty(SplitSentences(CollapseWs(text))), <<>>)

\* ts.filter((turn) => personaSpeakers.has(turn.speaker))
RECURSIVE PersonaTurnsOf(_, _)
PersonaTurnsOf(ts, speakers) ==
  IF ts = <<>> THEN <<>>
  ELSE (IF ts[1].speaker \in speakers THEN <<ts[1]>> ELSE <<>>)
         \o PersonaTurnsOf(Tail(ts), speakers)

\* Array.prototype.slice(-n)
LastN(q, n) == IF Len(q) <= n THEN q ELSE Drop(q, Len(q) - n + 1)

RECURSIVE CollectFrom(_)
CollectFrom(recentPersonaTurns) ==
  IF recentPersonaTurns = <<>> THEN <<>>
  ELSE extractOptionsFromText(recentPersonaTurns[1].content)
         \o CollectFrom(Tail(recentPersonaTurns))

collectCandidateOptions(ts, speakers) ==
  cleanOptionList(CollectFrom(LastN(PersonaTurnsOf(ts, speakers), 50)), 12)

pickTopOptions(options, limit) == cleanOptionList(options, limit)

(***************************************************************************)
(* Agreement detection                                                     *)
(***************************************************************************)
agreementPhrases ==
  { <<"i"," ","a","g","r","e","e">>, <<"i"," ","s","u","p","p","o","r","t">>, <<"i"," ","v","o","t","e"," ","f","o","r">>, <<"i"," ","p","i","c","k">>, <<"i"," ","c","h","o","o","s","e">>,
    <<"m","y"," ","v","o","t","e"," ","i","s">>, <<"w","e"," ","s","h","o","u","l","d"," ","c","h","o","o","s","e">>, <<"i","'","m"," ","f","o","r">> }

\* a turn counted for the last shortlist option it names
MatchedOptionLast(content, shortlistOptions) ==
  LET contentNorm == normalizeOption(content)
      hits == {k \in 1..Len(shortlistOptions) :
                 /\ normalizeOption(shortlistOptions[k]) # <<>>
                 /\ Includes(contentNorm, normalizeOption(shortlistOptions[k]))}
  IN  IF hits = {} THEN 0 ELSE CHOOSE k \in hits : \A m \in hits : k >= m

\* the option a turn is counted for: the first shortlist option whose key
\* the normalised content includes (0 when none)
MatchedOption(content, shortlistOptions) ==
  LET contentNorm == normalizeOption(content)
      hits == {k \in 1..Len(shortlistOptions) :
                 /\ normalizeOption(shortlistOptions[k]) # <<>>
                 /\ Includes(contentNorm, normalizeOption(shortlistOptions[k]))}
  IN  IF hits = {} THEN 0 ELSE CHOOSE k \in hits : \A m \in hits : k <= m

\* supporters counted per agreeing turn instead of per speaker
SupportersOfCountingTurns(recentPersonaTurns, shortlistOptions, k) ==
  { n \in 1..Len(recentPersonaTurns) :
      /\ Trim(recentPersonaTurns[n].content) # <<>>
      /\ ContainsAnyWord(Trim(recentPersonaTurns[n].content), agreementPhrases)
      /\ MatchedOption(Trim(recentPersonaTurns[n].content), shortlistOptions) = k }

\* supporters of option k after the loop over the recent persona ts
SupportersOf(recentPersonaTurns, shortlistOptions, k) ==
  { recentPersonaTurns[i].speaker : i \in
      { n \in 1..Len(recentPersonaTurns) :
          /\ Trim(recentPersonaTurns[n].content) # <<>>
          /\ ContainsAnyWord(Trim(recentPersonaTurns[n].content), agreementPhrases)
          /\ MatchedOption(Trim(recentPersonaTurns[n].content), shortlistOptions) = k } }

\* a winner loop in which a later option with as many supporters wins
RECURSIVE WinnerFromLaterWins(_, _, _, _)
WinnerFromLaterWins(recent, shortlistOptions, k, winner) ==
  IF k > Len(shortlistOptions) THEN winner
  ELSE LET size == Cardinality(SupportersOf(recent, shortlistOptions, k))
           better == /\ size >= 2
                     /\ \/ winner = 0
                        \/ size >= Cardinality(SupportersOf(recent, shortlistOptions, winner))
       IN  WinnerFromLaterWins(recent, shortlistOptions, k + 1, IF better THEN k ELSE winner)

\* the winner loop: the first option among those with the most supporters
RECURSIVE WinnerFrom(_, _, _, _)
WinnerFrom(recent, shortlistOptions, k, winner) ==
  IF k > Len(shortlistOptions) THEN winner
  ELSE LET size == Cardinality(SupportersOf(recent, shortlistOptions, k))
           better == /\ size >= 2
                     /\ \/ winner = 0
                        \/ size > Cardinality(SupportersOf(recent, shortlistOptions, winner))
       IN  WinnerFrom(recent, shortlistOptions, k + 1, IF better THEN k ELSE winner)

\* null (NullDecision) or <<the winning option>>
detectAgreementDecision(ts, speakers, shortlistOptions) ==
  LET recentPersonaTurns == LastN(PersonaTurnsOf(ts, speakers), 40)
      w == WinnerFrom(recentPersonaTurns, shortlistOptions, 1, 0)
  IN  IF Len(recentPersonaTurns) = 0 THEN NullDecision
      ELSE IF w = 0 THEN NullDecision
      ELSE <<shortlistOptions[w]>>

(***************************************************************************)
(* evaluateWorkflowState                                                   *)
(***************************************************************************)
ReasonCluster == <<"e","n","o","u","g","h"," ","i","d","e","a","s"," ","c","a","p","t","u","r","e","d"," ","f","o","r"," ","c","l","u","s","t","e","r","i","n","g">>

ReasonShortlist == <<"c","l","u","s","t","e","r","e","d"," ","i","d","e","a","s"," ","i","n","t","o"," ","s","h","o","r","t","l","i","s","t">>

ReasonNotEnough == <<"n","o","t"," ","e","n","o","u","g","h"," ","s","t","r","o","n","g"," ","o","p","t","i","o","n","s"," ","f","o","r"," ","s","h","o","r","t","l","i","s","t">>

ReasonDecide == <<"r","e","a","d","y"," ","f","o","r"," ","d","e","c","i","s","i","o","n"," ","v","o","t","e">>

ReasonAgreed == <<"t","w","o"," ","e","x","p","l","i","c","i","t"," ","a","g","r","e","e","m","e","n","t","s"," ","r","e","a","c","h","e","d">>

ReasonForced == <<"f","o","r","c","e","d"," ","b","i","n","a","r","y"," ","c","h","o","i","c","e"," ","a","f","t","e","r"," ","s","t","a","l","l","e","d"," ","d","e","c","i","s","i","o","n"," ","w","i","n","d","o","w">>

\* a brainstorm stage that asks for one option more
EvalBrainstormSix(next) ==
  IF Len(next.candidate_options) >= 6
    THEN [next EXCEPT !.stage = "cluster",
                      !.cycle_count_in_stage = 0,
                      !.last_transition_reason = ReasonCluster]
    ELSE next

EvalBrainstorm(next) ==
  IF Len(next.candidate_options) >= 5
    THEN [next EXCEPT !.stage = "cluster",
                      !.cycle_count_in_stage = 0,
                      !.last_transition_reason = ReasonCluster]
    ELSE next

\* a cluster stage that keeps two options instead of three
EvalClusterTopTwo(next) ==
  IF Len(next.candidate_options) >= 4 \/ next.cycle_count_in_stage >= 2
    THEN LET picked == pickTopOptions(next.candidate_options, 2)
         IN  IF Len(picked) >= 2
               THEN [next EXCEPT !.shortlist_options = picked,
                                 !.stage = "shortlist",
                                 !.cycle_count_in_stage = 0,
                                 !.last_transition_reason = ReasonShortlist]
               ELSE [next EXCEPT !.shortlist_options = picked,
                                 !.last_transition_reason = ReasonNotEnough]
    ELSE next

\* a cluster stage that stores a shortlist only when it moves on
EvalClusterKeepsShortlist(next) ==
  IF Len(next.candidate_options) >= 4 \/ next.cycle_count_in_stage >= 2
    THEN LET picked == pickTopOptions(next.candidate_options, 3)
         IN  IF Len(picked) >= 2
               THEN [next EXCEPT !.shortlist_options = picked,
                                 !.stage = "shortlist",
                                 !.cycle_count_in_stage = 0,
                                 !.last_transition_reason = ReasonShortlist]
               ELSE [next EXCEPT !.last_transition_reason = ReasonNotEnough]
    ELSE next

EvalCluster(next) ==
  IF Len(next.candidate_options) >= 4 \/ next.cycle_count_in_stage >= 2
    THEN LET picked == pickTopOptions(next.candidate_options, 3)
         IN  IF Len(picked) >= 2
               THEN [next EXCEPT !.shortlist_options = picked,
                                 !.stage = "shortlist",
                                 !.cycle_count_in_stage = 0,
                                 !.last_transition_reason = ReasonShortlist]
               ELSE [next EXCEPT !.shortlist_options = picked,
                                 !.last_transition_reason = ReasonNotEnough]
    ELSE next

\* a shortlist stage that works with the stored shortlist only
EvalShortlistStoredOnly(next) ==
  IF Len(next.shortlist_options) >= 2 /\ next.cycle_count_in_stage >= 1
    THEN [next EXCEPT !.stage = "decide",
                      !.cycle_count_in_stage = 0,
                      !.decide_window_failures = 0,
                      !.last_transition_reason = ReasonDecide]
    ELSE next

EvalShortlist(next) ==
  LET shortlist == IF Len(next.shortlist_options) < 2
                     THEN pickTopOptions(next.candidate_options, 3)
                     ELSE next.shortlist_options
  IN  IF Len(shortlist) >= 2 /\ next.cycle_count_in_stage >= 1
        THEN [next EXCEPT !.shortlist_options = shortlist,
                          !.stage = "decide",
                          !.cycle_count_in_stage = 0,
                          !.decide_window_failures = 0,
                          !.last_transition_reason = ReasonDecide]
        ELSE [next EXCEPT !.shortlist_options = shortlist]

\* a decide stage whose stalled window leaves the shortlist as it is
EvalDecideNoNarrowing(next, ts, speakers) ==
  LET shortlist == IF Len(next.shortlist_options) < 2
                     THEN pickTopOptions(next.candidate_options, 3)
                     ELSE next.shortlist_options
      winner == detectAgreementDecision(ts, speakers, shortlist)
  IN  IF winner # NullDecision
        THEN [next EXCEPT !.shortlist_options = shortlist,
                          !.locked_decision = winner,
                          !.stage = "next_action",
                          !.cycle_count_in_stage = 0,
                          !.last_transition_reason = ReasonAgreed]
      ELSE IF next.cycle_count_in_stage >= 1
        THEN [next EXCEPT !.shortlist_options = shortlist,
                          !.decide_window_failures = next.decide_window_failures + 1,
                          !.cycle_count_in_stage = 0,
                          !.last_transition_reason = ReasonForced]
      ELSE [next EXCEPT !.shortlist_options = shortlist]

\* a decide stage that records the agreement and goes on voting
EvalDecideKeepsVoting(next, ts, speakers) ==
  LET shortlist == IF Len(next.shortlist_options) < 2
                     THEN pickTopOptions(next.candidate_options, 3)
                     ELSE next.shortlist_options
      winner == detectAgreementDecision(ts, speakers, shortlist)
      forced == pickTopOptions(IF Len(shortlist) > 0 THEN shortlist
                               ELSE next.candidate_options, 2)
  IN  IF winner # NullDecision
        THEN [next EXCEPT !.shortlist_options = shortlist,
                          !.locked_decision = winner,
                          !.cycle_count_in_stage = 0,
                          !.last_transition_reason = ReasonAgreed]
      ELSE IF next.cycle_count_in_stage >= 1
        THEN [next EXCEPT !.shortlist_options = IF Len(forced) >= 2 THEN forced ELSE shortlist,
                          !.decide_window_failures = next.decide_window_failures + 1,
                          !.cycle_count_in_stage = 0,
                          !.last_transition_reason = ReasonForced]
      ELSE [next EXCEPT !.shortlist_options = shortlist]

EvalDecide(next, ts, speakers) ==
  LET shortlist == IF Len(next.shortlist_options) < 2
                     THEN pickTopOptions(next.candidate_options, 3)
                     ELSE next.shortlist_options
      winner == detectAgreementDecision(ts, speakers, shortlist)
      forced == pickTopOptions(IF Len(shortlist) > 0 THEN shortlist
                               ELSE next.candidate_options, 2)
  IN  IF winner # NullDecision
        THEN [next EXCEPT !.shortlist_options = shortlist,
                          !.locked_decision = winner,
                          !.stage = "next_action",
                          !.cycle_count_in_stage = 0,
                          !.last_transition_reason = ReasonAgreed]
      ELSE IF next.cycle_count_in_stage >= 1
        THEN [next EXCEPT !.shortlist_options = IF Len(forced) >= 2 THEN forced ELSE shortlist,
                          !.decide_window_failures = next.decide_window_failures + 1,
                          !.cycle_count_in_stage = 0,
                          !.last_transition_reason = ReasonForced]
      ELSE [next EXCEPT !.shortlist_options = shortlist]

\* an evaluation that starts over once the decision has been acted on
EvaluateStageLoopsBack(next, ts, speakers) ==
  IF next.stage = "brainstorm" THEN EvalBrainstorm(next)
  ELSE IF next.stage = "cluster" THEN EvalCluster(next)
  ELSE IF next.stage = "shortlist" THEN EvalShortlist(next)
  ELSE IF next.stage = "decide" THEN EvalDecide(next, ts, speakers)
  ELSE [next EXCEPT !.stage = "brainstorm",
                    !.cycle_count_in_stage = 0,
                    !.locked_decision = NullDecision]

\* an evaluation that takes a decision as soon as the ideas are in
EvaluateStageSkipsAhead(next, ts, speakers) ==
  IF next.stage = "brainstorm"
    THEN (IF Len(next.candidate_options) >= 5
            THEN EvalDecide([next EXCEPT !.stage = "decide"], ts, speakers)
            ELSE next)
  ELSE IF next.stage = "cluster" THEN EvalCluster(next)
  ELSE IF next.stage = "shortlist" THEN EvalShortlist(next)
  ELSE IF next.stage = "decide" THEN EvalDecide(next, ts, speakers)
  ELSE next

\* the branch on next.stage, next being the sanitized state with the pool
\* of candidate options collected from the history
EvaluateStage(next, ts, speakers) ==
  IF next.stage = "brainstorm" THEN EvalBrainstorm(next)
  ELSE IF next.stage = "cluster" THEN EvalCluster(next)
  ELSE IF next.stage = "shortlist" THEN EvalShortlist(next)
  ELSE IF next.stage = "decide" THEN EvalDecide(next, ts, speakers)
  ELSE next

evaluateWorkflowState(state, ts, speakers) ==
  EvaluateStage([sanitizeWorkflowState(state) EXCEPT
                   !.candidate_options = collectCandidateOptions(ts, speakers)],
                ts, speakers)

(***************************************************************************)
(* The visible Workflow announcement                                       *)
(***************************************************************************)
StageText(stage) ==
  IF stage = "brainstorm" THEN <<"b","r","a","i","n","s","t","o","r","m">>
  ELSE IF stage = "cluster" THEN <<"c","l","u","s","t","e","r">>
  ELSE IF stage = "shortlist" THEN <<"s","h","o","r","t","l","i","s","t">>
  ELSE IF stage = "decide" THEN <<"d","e","c","i","d","e">>
  ELSE <<"n","e","x","t","_","a","c","t","i","o","n">>

getWorkflowObjectiveText(stage) ==
  IF stage = "brainstorm" THEN <<"B","r","a","i","n","s","t","o","r","m"," ","n","o","w","."," ","C","o","n","t","r","i","b","u","t","e"," ","2"," ","d","i","s","t","i","n","c","t"," ","i","d","e","a","s"," ","i","n"," ","t","h","i","s"," ","t","u","r","n",".">>
  ELSE IF stage = "cluster" THEN <<"G","r","o","u","p"," ","a","n","d"," ","m","e","r","g","e"," ","o","v","e","r","l","a","p","p","i","n","g"," ","i","d","e","a","s"," ","i","n","t","o"," ","c","l","e","a","r"," ","t","h","e","m","e","s",".">>
  ELSE IF stage = "shortlist" THEN <<"N","a","r","r","o","w"," ","t","o"," ","a","t"," ","m","o","s","t"," ","t","h","r","e","e"," ","c","o","n","c","r","e","t","e"," ","o","p","t","i","o","n","s",".">>
  ELSE IF stage = "decide" THEN <<"C","h","o","o","s","e"," ","o","n","e"," ","o","p","t","i","o","n"," ","a","n","d"," ","s","t","a","t","e"," ","e","x","p","l","i","c","i","t"," ","a","g","r","e","e","m","e","n","t",".">>
  ELSE IF stage = "next_action" THEN <<"D","e","f","i","n","e"," ","t","h","e"," ","i","m","m","e","d","i","a","t","e"," ","n","e","x","t"," ","a","c","t","i","o","n"," ","f","o","r"," ","t","h","e"," ","l","o","c","k","e","d"," ","d","e","c","i","s","i","o","n",".">>
  ELSE <<"C","o","n","t","r","i","b","u","t","e"," ","t","o"," ","t","h","e"," ","c","u","r","r","e","n","t"," ","s","t","a","g","e"," ","o","b","j","e","c","t","i","v","e",".">>

\* Array.prototype.join(sep)
RECURSIVE Join(_, _)
Join(parts, sep) ==
  IF parts = <<>> THEN <<>>
  ELSE IF Len(parts) = 1 THEN parts[1]
  ELSE parts[1] \o sep \o Join(Tail(parts), sep)

\* an announcement that also tells whether cycles were spent in the stage
formatWorkflowMessageWithCycles(state) ==
  Join(<< <<"S","t","a","g","e",":"," ">> \o StageText(state.stage),
          IF state.cycle_count_in_stage > 0 THEN <<"C","y","c","l","e","s">>
          ELSE <<"N","e","w">> >>, <<"\n">>)

formatWorkflowMessage(state) ==
  LET lines ==
        << <<"S","t","a","g","e",":"," ">> \o StageText(state.stage),
           <<"O","b","j","e","c","t","i","v","e",":"," ">> \o getWorkflowObjectiveText(state.stage) >>
        \o (IF Len(state.shortlist_options) > 0
              THEN << <<"S","h","o","r","t","l","i","s","t",":"," ">> \o Join(state.shortlist_options, <<" ","|"," ">>) >>
              ELSE <<>>)
        \o (IF state.locked_decision # NullDecision /\ state.locked_decision[1] # <<>>
              THEN << <<"L","o","c","k","e","d"," ","d","e","c","i","s","i","o","n",":"," ">> \o state.locked_decision[1] >>
              ELSE <<>>)
        \o (IF state.last_transition_reason # <<>>
              THEN << <<"R","e","a","s","o","n",":"," ">> \o state.last_transition_reason >>
              ELSE <<>>)
  IN  Join(lines, <<"\n">>)

\* the turn appendVisibleWorkflowTurn pushes
WorkflowTurn(state) == [speaker |-> WorkflowName, content |-> formatWorkflowMessage(state)]

(***************************************************************************)
(* Bounds of the model and the inputs the environment can supply           *)
(***************************************************************************)
\* completed rotation cycles explored
MaxCycles == 3

\* completed rotation cycles explored when the backend has at most two
\* responses to give: long enough for four evaluations and what follows
MaxLongCycles == 9

\* Narrator (advisor) turns injected in one run
MaxNarrator == 1

RespBlank == <<" "," ">>

RespIdeas == <<"-"," ","a","a","a","a","a","a","a","a","\n","*"," ","b","b","b","b","b","b","b","b","\n","1","."," ","c","c","c","c","c","c","c","c","\n","2",")"," ","d","d","d","d","d","d","d","d","\n","-"," ","e","e","e","e","e","e","e","e"," ">>

RespVote == <<"i"," ","a","g","r","e","e"," ","a","a","a","a","a","a","a","a",".">>

\* what the backend may stream back for one request, for two models: one
\* that talks (or returns nothing) and one that emits separators and scripts
BackendTalk == {RespBlank, RespIdeas, RespVote}

BackendMarker ==
  { RespBlank, <<"*","*","A","l","i","c","e","*","*",":","\n","h","i">>, <<" ","-","-","-">> }

IsPersonaTurn(turn) == turn.speaker \in personaSpeakers

\* turns.some((turn) => personaSpeakers.has(turn.speaker))
HasPersonaHistory(ts) == \E i \in 1..Len(ts) : IsPersonaTurn(ts[i])

(***************************************************************************)
(* Start of the process (lines 1148-1207)                                  *)
(***************************************************************************)
\* a history left by an earlier run
ResumedFile ==
  << [speaker |-> SeedName, content |-> <<"g","o">>],
     [speaker |-> WorkflowName, content |-> formatWorkflowMessage(defaultWorkflowState)],
     [speaker |-> personaFileToSpeaker(AliceFile), content |-> Trim(RespIdeas)],
     [speaker |-> personaFileToSpeaker(ModeratorFile), content |-> Trim(RespVote)] >>

\* a workflow state left by an earlier run
ResumedDecide ==
  [ defaultWorkflowState EXCEPT
      !.stage = "decide",
      !.candidate_options = << <<"a","a","a","a","a","a","a","a">>, <<"b","b","b","b","b","b","b","b">>, <<"c","c","c","c","c","c","c","c">>, <<"d","d","d","d","d","d","d","d">>, <<"e","e","e","e","e","e","e","e">> >>,
      !.shortlist_options = << <<"a","a","a","a","a","a","a","a">>, <<"b","b","b","b","b","b","b","b">>, <<"c","c","c","c","c","c","c","c">> >>,
      !.last_transition_reason = ReasonDecide ]

\* what the process may find at startup: the model behind URL, the listing
\* of PERSONA_DIR, FILE, WORKFLOW_STATE_FILE and ADVISOR_FILE (blank when the
\* file is missing)
StartStates ==
  { [backend |-> BackendTalk, dir |-> <<AliceFile, BobFile, ModeratorFile>>,
     file |-> <<>>, workflow |-> defaultWorkflowState, advisor |-> <<"a","d","v","i","s","o","r"," ","i","s"," ","i","n">>],
    [backend |-> BackendTalk, dir |-> <<AliceFile, ModeratorFile, SecretaryFile>>,
     file |-> ResumedFile, workflow |-> ResumedDecide, advisor |-> <<>>],
    [backend |-> BackendMarker,
     dir |-> <<AliceFile, BobFile, ModeratorFile, SecretaryFile>>,
     file |-> <<>>, workflow |-> ResumedDecide, advisor |-> <<>>],
    [backend |-> {RespBlank, RespVote}, dir |-> <<AliceFile, ModeratorFile>>,
     file |-> ResumedFile,
     workflow |-> [ResumedDecide EXCEPT
                     !.stage = "next_action",
                     !.locked_decision = <<ResumedDecide.shortlist_options[2]>>,
                     !.last_transition_reason = ReasonAgreed],
     advisor |-> <<>>],
    [backend |-> { NO_INTERVENTION, <<"n","o","_","i","n","t","e","r","v","e","n","t","i","o","n",".">>,
                   <<"P","l","e","a","s","e"," ","v","o","t","e"," ","n","o","w","."," ","T","h","e","n"," ","w","e"," ","m","o","v","e"," ","o","n",".">>,
                   <<"V","o","t","e","."," ","D","e","c","i","d","e","."," ","F","o","c","u","s",".">>,
                   <<"V","o","t","e"," ","o","n"," ","t","h","e"," ","b","e","s","t"," ","i","d","e","a",".">>,
                   <<"N","i","c","e"," ","w","e","a","t","h","e","r",".">>,
                   <<"v","o","t","e"," ">> \o [i \in 1..255 |-> "-"],
                   <<"v","o","t","e"," ">> \o [i \in 1..256 |-> "-"] },
     dir |-> <<ModeratorFile>>, file |-> <<>>, workflow |-> defaultWorkflowState,
     advisor |-> <<>>],
    [backend |-> { Join([i \in 1..13 |-> <<"-", " ">> \o [k \in 1..8 |-> LowerSeq[i]]],
                        <<"\n">>) },
     dir |-> <<AliceFile>>, file |-> ResumedFile,
     workflow |-> [defaultWorkflowState EXCEPT
                     !.stage = "cluster",
                     !.candidate_options =
                        [i \in 1..14 |-> [k \in 1..8 |-> IF i = 2 THEN UpperSeq[1]
                                                         ELSE LowerSeq[i]]],
                     !.shortlist_options =
                        [i \in 1..5 |-> [k \in 1..8 |-> IF i = 2 THEN UpperSeq[1]
                                                        ELSE LowerSeq[i]]]],
     advisor |-> <<>>],
    [backend |-> BackendTalk, dir |-> <<>>, file |-> <<>>, workflow |-> ResumedDecide,
     advisor |-> <<"a","d","v","i","s","o","r"," ","i","s"," ","i","n">>],
    [backend |-> {RespIdeas, <<"i"," ","a","g","r","e","e","\n","-"," ","a","a","a","a","a","a","a","a">>},
     dir |-> <<AliceFile, BobFile>>, file |-> <<>>, workflow |-> defaultWorkflowState,
     advisor |-> <<>>] }

\* the state when the loop is entered, for what was found at startup and
\* the picks js of the first shuffle
StartAt(start, js) ==
  /\ backend = start.backend
  /\ allPersonaFiles = start.dir
  /\ advisorFile = start.advisor
  /\ file = start.file
  /\ wfFile = start.workflow
  /\ workflowState = IF WORKFLOW_ENABLED THEN sanitizeWorkflowState(start.workflow)
                     ELSE defaultWorkflowState
  /\ cyclesSinceEvent = IF HasPersonaHistory(start.file) THEN -1 ELSE 0
  /\ personas = shufflePersonas(allPersonaFiles, availableSpecialPersonas, js)
  /\ lastAdvisorTime = 0
  /\ personaIndex = 0
  /\ pendingWorkflowCycles = 0
  /\ pc = "top"
  /\ turns = <<>>
  /\ speaker = <<>>
  /\ cycleCompletedThisTurn = FALSE
  /\ attempt = 0
  /\ accepted = <<>>
  /\ auditLog = <<>>
  /\ lastNote = "none"
  /\ backendCalls = 0
  /\ cycleLog = <<>>
  /\ evaluated = FALSE
  /\ cyclesSinceEval = 0
  /\ cyclesDone = 0
  /\ narratorCount = 0
  /\ workflowTurns = 0

Init ==
  /\ \E start \in StartStates :
       \E js \in PicksFor(start.dir, FilterSeq(SPECIAL_PERSONA_ORDER, SeqToSet(start.dir))) :
         StartAt(start, js)
  /\ probe = [op |-> "none"]

(***************************************************************************)
(* The head of one iteration of the main loop (lines 1210-1330): read the  *)
(* history, reset the workflow on a fresh run, seed, announce, inject the  *)
(* advisor notice, pick the persona and advance the cursor.                *)
(***************************************************************************)
\* a reset that looks for an empty history instead of one without persona
\* turns
AfterFreshRunResetOnEmptyHistory(ts, ws, pending) ==
  IF WORKFLOW_ENABLED /\ Len(ts) = 0
    THEN [workflowState |-> defaultWorkflowState, pending |-> 0, reset |-> TRUE]
    ELSE [workflowState |-> ws, pending |-> pending, reset |-> FALSE]

\* lines 1223-1230: the workflow state and pending count after the reset test
AfterFreshRunReset(ts, ws, pending) ==
  IF WORKFLOW_ENABLED /\ ~HasPersonaHistory(ts)
    THEN [workflowState |-> defaultWorkflowState, pending |-> 0, reset |-> TRUE]
    ELSE [workflowState |-> ws, pending |-> pending, reset |-> FALSE]

\* lines 1232-1242: the history after seeding with the content of SEED_FILE
AfterSeed(ts, seed) ==
  IF Len(ts) = 0 /\ Len(Trim(seed)) > 0
    THEN [turns |-> <<[speaker |-> SeedName, content |-> Trim(seed)]>>, seeded |-> TRUE]
    ELSE [turns |-> ts, seeded |-> FALSE]

\* an initial announcement made on every iteration that finds no persona turn
AfterInitialAnnouncementRepeated(ts, seeded, hasPersonaHistory, ws) ==
  IF WORKFLOW_ENABLED /\ (seeded \/ ~hasPersonaHistory)
    THEN Append(ts, WorkflowTurn(ws))
    ELSE ts

\* lines 1244-1251: the initial Workflow announcement
AfterInitialAnnouncement(ts, seeded, hasPersonaHistory, ws) ==
  IF WORKFLOW_ENABLED
       /\ (seeded \/ (~hasPersonaHistory
                        /\ ~\E i \in 1..Len(ts) : ts[i].speaker = WorkflowName))
    THEN Append(ts, WorkflowTurn(ws))
    ELSE ts

\* lines 1253-1270: the Narrator turn, pushed when the interval has elapsed
\* since lastAdvisorTime (always, while lastAdvisorTime is 0) and ADVISOR_FILE
\* holds a non-blank prompt
AfterAdvisor(ts, due, advisorPrompt) ==
  IF due /\ Trim(advisorPrompt) # <<>>
    THEN [turns |-> Append(ts, [speaker |-> NarratorName, content |-> Trim(advisorPrompt)]),
          injected |-> TRUE]
    ELSE [turns |-> ts, injected |-> FALSE]

\* a cursor that wraps one step late
AdvanceCursorLate(list, index, fresh) ==
  LET personaFile == list[(index % Len(list)) + 1]
  IN  IF index + 1 > Len(list)
        THEN [personaFile |-> personaFile, personas |-> fresh,
              personaIndex |-> 0, cycleCompleted |-> TRUE]
        ELSE [personaFile |-> personaFile, personas |-> list,
              personaIndex |-> index + 1, cycleCompleted |-> FALSE]

\* a cursor that has the list shuffled again after every turn
AdvanceCursorEveryTurn(list, index, fresh) ==
  [personaFile |-> list[(index % Len(list)) + 1], personas |-> fresh,
   personaIndex |-> 0, cycleCompleted |-> index + 1 >= Len(list)]

\* lines 1272-1283: the persona served and the cursor after the advance;
\* fresh is the list shufflePersonas returns if it is called
AdvanceCursor(list, index, fresh) ==
  LET personaFile == list[(index % Len(list)) + 1]
  IN  IF index + 1 >= Len(list)
        THEN [personaFile |-> personaFile, personas |-> fresh,
              personaIndex |-> 0, cycleCompleted |-> TRUE]
        ELSE [personaFile |-> personaFile, personas |-> list,
              personaIndex |-> index + 1, cycleCompleted |-> FALSE]

BeginIteration ==
  /\ pc = "top"
  /\ cyclesDone < (IF Cardinality(backend) <= 2 THEN MaxLongCycles ELSE MaxCycles)
  /\ \E seed \in { <<" ","g","o","\n">> }, elapsed \in BOOLEAN,
        js \in PicksFor(allPersonaFiles, availableSpecialPersonas) :
       LET read == file
           r == AfterFreshRunReset(read, workflowState, pendingWorkflowCycles)
           s == AfterSeed(read, seed)
           a == AfterInitialAnnouncement(s.turns, s.seeded, HasPersonaHistory(read),
                                         r.workflowState)
           n == AfterAdvisor(a, lastAdvisorTime = 0 \/ elapsed, advisorFile)
           c == AdvanceCursor(personas, personaIndex,
                              shufflePersonas(allPersonaFiles, availableSpecialPersonas, js))
           none == Len(personas) = 0
       IN  /\ elapsed => lastAdvisorTime # 0
           /\ n.injected => narratorCount < MaxNarrator
           /\ narratorCount' = IF n.injected THEN narratorCount + 1 ELSE narratorCount
           /\ workflowTurns' = (IF read = <<>> THEN 0 ELSE workflowTurns)
                                  + (IF a # s.turns THEN 1 ELSE 0)
           /\ lastAdvisorTime' = IF n.injected THEN 1 ELSE lastAdvisorTime
           /\ workflowState' = r.workflowState
           /\ pendingWorkflowCycles' = r.pending
           /\ wfFile' = IF r.reset THEN sanitizeWorkflowState(r.workflowState) ELSE wfFile
           /\ turns' = n.turns
           /\ file' = n.turns
           /\ IF none
                THEN \* line 1272: personas[personaIndex % personas.length] is
                     \* undefined, readFile of that name rejects, the process ends
                     /\ pc' = "thrown"
                     /\ lastNote' = "ENOENT"
                     /\ attempt' = 0
                     /\ cyclesSinceEval' = IF r.reset THEN 0 ELSE cyclesSinceEval
                     /\ cyclesSinceEvent' = IF r.reset THEN 0 ELSE cyclesSinceEvent
                     /\ UNCHANGED <<speaker, personas, personaIndex, cycleCompletedThisTurn,
                                    cycleLog, cyclesDone>>
                ELSE /\ speaker' = SpeakerOrDefault(c.personaFile)
                     /\ personas' = c.personas
                     /\ personaIndex' = c.personaIndex
                     /\ cycleCompletedThisTurn' = c.cycleCompleted
                     /\ cycleLog' = IF personaIndex = 0 THEN <<c.personaFile>>
                                    ELSE Append(cycleLog, c.personaFile)
                     /\ cyclesSinceEval' = (IF r.reset THEN 0 ELSE cyclesSinceEval)
                                             + (IF c.cycleCompleted THEN 1 ELSE 0)
                     /\ cyclesSinceEvent' =
                          IF r.reset THEN (IF c.cycleCompleted THEN 1 ELSE 0)
                          ELSE IF cyclesSinceEvent >= 0 /\ c.cycleCompleted
                                 THEN cyclesSinceEvent + 1
                          ELSE cyclesSinceEvent
                     /\ cyclesDone' = IF c.cycleCompleted THEN cyclesDone + 1 ELSE cyclesDone
                     /\ attempt' = 1
                     /\ lastNote' = "none"
                     /\ pc' = IF 1 <= MAX_INVALID_TURN_RETRIES THEN "generate" ELSE "exhausted"
  /\ accepted' = <<>>
  /\ auditLog' = <<>>
  /\ backendCalls' = 0
  /\ evaluated' = FALSE
  /\ UNCHANGED <<backend, allPersonaFiles, advisorFile, probe>>

(***************************************************************************)
(* The retry loop (lines 1331-1342): one pass of the for loop              *)
(***************************************************************************)
\* a retry loop that runs one pass too many
RetryAgainOnceMore(nextAttempt) == nextAttempt <= MAX_INVALID_TURN_RETRIES + 1

\* does the for loop run its body again after a rejected pass
RetryAgain(nextAttempt) == nextAttempt <= MAX_INVALID_TURN_RETRIES

\* an error of the backend that the retry loop takes for a rejected attempt
AfterBackendErrorRetried(n) ==
  [pc |-> IF RetryAgain(n + 1) THEN "generate" ELSE "exhausted", attempt |-> n + 1]

\* lines 1003-1013: fetch rejects, or the answer is not OK and generateAttempt
\* throws "Ollama error".  Nothing between generateAttempt and the top level
\* catches the error: pass n of the retry loop is left and the process ends.
AfterBackendError(n) == [pc |-> "thrown", attempt |-> n]

BackendFailure ==
  /\ pc = "generate"
  /\ backendCalls' = backendCalls + 1
  /\ lastNote' = "Ollama error"
  /\ pc' = AfterBackendError(attempt).pc
  /\ attempt' = AfterBackendError(attempt).attempt
  /\ UNCHANGED <<backend, allPersonaFiles, advisorFile, lastAdvisorTime, file, wfFile, personas, personaIndex, workflowState,
                 pendingWorkflowCycles, turns, speaker, cycleCompletedThisTurn, accepted>>
  /\ UNCHANGED <<auditLog, cycleLog, evaluated, cyclesSinceEval,
                 cyclesSinceEvent, cyclesDone, narratorCount, workflowTurns, probe>>

Attempt ==
  /\ pc = "generate"
  /\ \E response \in backend :
       LET result == generateAttempt(response, knownSpeakerNames)
       IN  /\ backendCalls' = backendCalls + 1
           /\ IF result.ok
                THEN /\ accepted' = <<result.fullResponse>>
                     /\ pc' = "accepted"
                     /\ UNCHANGED <<attempt, auditLog>>
                ELSE /\ auditLog' = Append(auditLog,
                                     [kind |-> "discarded", speaker |-> speaker,
                                      attempt |-> attempt, reason |-> result.reason])
                     /\ attempt' = attempt + 1
                     /\ pc' = IF RetryAgain(attempt + 1) THEN "generate" ELSE "exhausted"
                     /\ UNCHANGED accepted
  /\ UNCHANGED <<backend, allPersonaFiles, advisorFile, lastAdvisorTime, file, wfFile, personas, personaIndex, workflowState,
                 pendingWorkflowCycles, turns, speaker, cycleCompletedThisTurn>>
  /\ UNCHANGED <<lastNote, cycleLog, evaluated, cyclesSinceEval,
                 cyclesSinceEvent, cyclesDone, narratorCount, workflowTurns, probe>>

(***************************************************************************)
(* Workflow bookkeeping at the end of an iteration                         *)
(***************************************************************************)
\* an evaluation whose transitions are not announced
WindowOutcomeSilent(counted, next, ts) ==
  [workflowState |-> next, pending |-> 0, evaluated |-> TRUE,
   announced |-> FALSE, turns |-> ts]

\* the evaluation of the window: next is the state evaluateWorkflowState
\* returns for the state counted
WindowOutcome(counted, next, ts) ==
  [workflowState |-> next, pending |-> 0, evaluated |-> TRUE,
   announced |-> next.stage # counted.stage,
   turns |-> IF next.stage # counted.stage THEN Append(ts, WorkflowTurn(next)) ELSE ts]

\* bookkeeping that evaluates on every completed cycle
CycleOutcomeEveryCycle(counted, pending, ts) ==
  WindowOutcome(counted, evaluateWorkflowState(counted, ts, personaSpeakers), ts)

\* an evaluation that runs on the history without its latest turn
CycleOutcomeStaleHistory(counted, pending, ts) ==
  IF pending + 1 >= WORKFLOW_CYCLE_WINDOW
    THEN WindowOutcome(counted,
                       evaluateWorkflowState(counted, SubSeq(ts, 1, Len(ts) - 1),
                                             personaSpeakers), ts)
    ELSE [workflowState |-> counted, pending |-> pending + 1, evaluated |-> FALSE,
          announced |-> FALSE, turns |-> ts]

\* what follows the increment of cycle_count_in_stage
CycleOutcome(counted, pending, ts) ==
  IF pending + 1 >= WORKFLOW_CYCLE_WINDOW
    THEN WindowOutcome(counted, evaluateWorkflowState(counted, ts, personaSpeakers), ts)
    ELSE [workflowState |-> counted, pending |-> pending + 1, evaluated |-> FALSE,
          announced |-> FALSE, turns |-> ts]

\* a completed cycle that is left out of cycle_count_in_stage
CycleStepNotCounted(ws, pending, ts) == CycleOutcome(ws, pending, ts)

\* the body of "if (WORKFLOW_ENABLED && cycleCompletedThisTurn) { ... }"
CycleStep(ws, pending, ts) ==
  CycleOutcome([ws EXCEPT !.cycle_count_in_stage = ws.cycle_count_in_stage + 1],
               pending, ts)

NoCycleStep(ws, pending, ts) ==
  [workflowState |-> ws, pending |-> pending, evaluated |-> FALSE,
   announced |-> FALSE, turns |-> ts]

\* a skipped turn that leaves the cycle bookkeeping out
SkippedNoBookkeeping(ws, pending, ts, cycleCompleted) == NoCycleStep(ws, pending, ts)

\* lines 1349-1361, the skipped branch
SkippedBookkeeping(ws, pending, ts, cycleCompleted) ==
  IF WORKFLOW_ENABLED /\ cycleCompleted
    THEN CycleStep(ws, pending, ts) ELSE NoCycleStep(ws, pending, ts)

\* a moderator no-op that leaves the cycle bookkeeping out
NoInterventionNoBookkeeping(ws, pending, ts, cycleCompleted) == NoCycleStep(ws, pending, ts)

\* lines 1379-1391, the moderator no-intervention branch
NoInterventionBookkeeping(ws, pending, ts, cycleCompleted) ==
  IF WORKFLOW_ENABLED /\ cycleCompleted
    THEN CycleStep(ws, pending, ts) ELSE NoCycleStep(ws, pending, ts)

\* lines 1452-1464, after an accepted turn
AcceptedBookkeeping(ws, pending, ts, cycleCompleted) ==
  IF WORKFLOW_ENABLED /\ cycleCompleted
    THEN CycleStep(ws, pending, ts) ELSE NoCycleStep(ws, pending, ts)

\* did the evaluation reset cycle_count_in_stage: a stage transition or the
\* forced narrowing of the decide stage
ResetsCounter(before, b) ==
  /\ b.evaluated
  /\ \/ b.workflowState.stage # before.stage
     \/ /\ before.stage = "decide"
        /\ b.workflowState.decide_window_failures # before.decide_window_failures

\* the effect of the bookkeeping b on the loop state, after an iteration
\* whose history is b.turns; persisted tells whether FILE was written, note
\* is the line that closes the iteration in LOG_FILE.  The locals of the
\* iteration (attempt, accepted) go out of scope.
EndIteration(b, persisted, note) ==
  /\ workflowState' = b.workflowState
  /\ pendingWorkflowCycles' = b.pending
  /\ wfFile' = IF b.evaluated THEN sanitizeWorkflowState(b.workflowState) ELSE wfFile
  /\ turns' = <<>>
  /\ file' = IF persisted \/ b.announced THEN b.turns ELSE file
  /\ evaluated' = b.evaluated
  /\ cyclesSinceEval' = IF b.evaluated THEN 0 ELSE cyclesSinceEval
  /\ cyclesSinceEvent' = IF ResetsCounter(workflowState, b) THEN 0 ELSE cyclesSinceEvent
  /\ lastNote' = note
  /\ pc' = "top"
  /\ attempt' = 0
  /\ accepted' = <<>>
  /\ auditLog' = <<>>
  /\ backendCalls' = 0
  /\ workflowTurns' = IF b.announced THEN workflowTurns + 1 ELSE workflowTurns
  /\ UNCHANGED <<backend, allPersonaFiles, advisorFile, lastAdvisorTime, personas, personaIndex, speaker, cycleCompletedThisTurn,
                 cycleLog, cyclesDone, narratorCount, probe>>

(***************************************************************************)
(* The three ends of an iteration                                          *)
(***************************************************************************)
\* lines 1344-1365: every attempt was rejected
SkippedTurn ==
  /\ pc = "exhausted"
  /\ accepted = <<>>
  /\ EndIteration(SkippedBookkeeping(workflowState, pendingWorkflowCycles, turns,
                                     cycleCompletedThisTurn), FALSE, "skipped")

\* lines 1367-1372: the response after the moderator normalisation
FinalResponse(who, fullResponse) ==
  IF who = ModeratorName THEN normalizeModeratorOutput(fullResponse) ELSE fullResponse

isModeratorNoIntervention(who, fullResponse) ==
  who = ModeratorName /\ IsNoIntervention(fullResponse)

\* lines 1374-1395: the moderator has nothing to say
ModeratorNoIntervention ==
  /\ pc = "accepted"
  /\ accepted # <<>>
  /\ isModeratorNoIntervention(speaker, FinalResponse(speaker, accepted[1]))
  /\ EndIteration(NoInterventionBookkeeping(workflowState, pendingWorkflowCycles, turns,
                                            cycleCompletedThisTurn), FALSE, "no-intervention")

\* a commit that puts the new turn in front of the history
AppendAndTrimAtFront(ts, who, fullResponse) ==
  trimTurnsByPersonaWindow(<<[speaker |-> who, content |-> fullResponse]>> \o ts,
                           maxPersonaTurns, personaSpeakers)

\* a commit that trims the history without pushing the new turn
AppendAndTrimDropsTurn(ts, who, fullResponse) ==
  trimTurnsByPersonaWindow(ts, maxPersonaTurns, personaSpeakers)

\* lines 1437-1444: push the turn and trim to the persona window
AppendAndTrim(ts, who, fullResponse) ==
  trimTurnsByPersonaWindow(Append(ts, [speaker |-> who, content |-> fullResponse]),
                           maxPersonaTurns, personaSpeakers)

\* lines 1397-1466: the turn is logged, appended, trimmed and saved (the
\* blank-turn branch of lines 1397-1403 comes first)
AcceptedTurn ==
  /\ pc = "accepted"
  /\ accepted # <<>>
  /\ LET fullResponse == FinalResponse(speaker, accepted[1])
     IN  /\ ~isModeratorNoIntervention(speaker, fullResponse)
         /\ IF Trim(fullResponse) = <<>>
              THEN EndIteration(NoCycleStep(workflowState, pendingWorkflowCycles, turns),
                                FALSE, "blank")
              ELSE EndIteration(
                     AcceptedBookkeeping(workflowState, pendingWorkflowCycles,
                                         AppendAndTrim(turns, speaker, fullResponse),
                                         cycleCompletedThisTurn), TRUE, "turn")

Next ==
  \/ BeginIteration
  \/ Attempt
  \/ BackendFailure
  \/ SkippedTurn
  \/ ModeratorNoIntervention
  \/ AcceptedTurn

Spec == Init /\ [][Next]_vars

(***************************************************************************)
(* Properties of the rotation (lines 1153-1182, 1272-1283)                 *)
(***************************************************************************)
\* C1: within one rotation cycle no persona is served twice, once a special
\* persona has been served only special personas follow, in the order of
\* SPECIAL_PERSONA_ORDER (moderator before secretary), and when the cursor
\* is back at the start of a list every regular and every special persona
\* of the directory has been served exactly once.  This holds for the first
\* list and for every list a reshuffle produces.
C1_EachPersonaOncePerCycle ==
  /\ \A i, j \in 1..Len(cycleLog) : i # j => cycleLog[i] # cycleLog[j]
  /\ \A i, j \in 1..Len(cycleLog) :
        (i < j /\ cycleLog[i] \in SeqToSet(SPECIAL_PERSONA_ORDER))
          => /\ cycleLog[j] \in SeqToSet(SPECIAL_PERSONA_ORDER)
             /\ IndexOf(SPECIAL_PERSONA_ORDER, cycleLog[i])
                  < IndexOf(SPECIAL_PERSONA_ORDER, cycleLog[j])
  /\ (personaIndex = 0 /\ cycleLog # <<>>)
        => /\ SeqToSet(cycleLog) = SeqToSet(allPersonaFiles)
           /\ Len(cycleLog) = Len(allPersonaFiles)

\* a second or later cycle, served from a reshuffled list that starts with
\* the second regular persona of the directory, is complete and ended with
\* the moderator followed by the secretary
C1_Witness ==
  /\ cyclesDone >= 2
  /\ personaIndex = 0
  /\ cycleLog = <<BobFile, AliceFile, ModeratorFile, SecretaryFile>>

(***************************************************************************)
(* Properties of the validation of responses (lines 1035-1044, 1331-1342)  *)
(***************************************************************************)
\* C2: every persona turn of the persisted history has content that is not
\* empty after trimming and that hasTranscriptContamination classifies as
\* not contaminated.
C2_PersistedTurnsClean ==
  \A i \in 1..Len(file) :
     IsPersonaTurn(file[i])
       => /\ Trim(file[i].content) # <<>>
          /\ ~hasTranscriptContamination(file[i].content, knownSpeakerNames)

(***************************************************************************)
(* Properties of the retry loop and of the skipped turn                    *)
(***************************************************************************)
\* C5: the step that ends an iteration whose attempts were all rejected
\* records no persona turn, leaves the cursor advanced past the skipped
\* persona, and does to the workflow state, the pending count and the
\* history what the bookkeeping of an accepted turn does on the same
\* history, state and cycle-completed flag.
C5_SkippedTurnBookkeeping ==
  [][pc = "exhausted"
       => /\ PersonaTurnsOf(file', personaSpeakers) = PersonaTurnsOf(file, personaSpeakers)
          /\ personaIndex' = Len(cycleLog) % Len(personas)
          /\ personas' = personas
          /\ workflowState' =
               AcceptedBookkeeping(workflowState, pendingWorkflowCycles, turns,
                                   cycleCompletedThisTurn).workflowState
          /\ pendingWorkflowCycles' =
               AcceptedBookkeeping(workflowState, pendingWorkflowCycles, turns,
                                   cycleCompletedThisTurn).pending
          /\ evaluated' =
               AcceptedBookkeeping(workflowState, pendingWorkflowCycles, turns,
                                   cycleCompletedThisTurn).evaluated
          /\ file' =
               IF AcceptedBookkeeping(workflowState, pendingWorkflowCycles, turns,
                                      cycleCompletedThisTurn).announced
                 THEN AcceptedBookkeeping(workflowState, pendingWorkflowCycles, turns,
                                          cycleCompletedThisTurn).turns
                 ELSE file
  ]_vars

\* a skipped turn completed a cycle and the workflow was evaluated
C5_Witness ==
  /\ pc = "top"
  /\ lastNote = "skipped"
  /\ cycleCompletedThisTurn
  /\ evaluated
  /\ workflowState.cycle_count_in_stage >= 1

\* C6: in one turn the backend is called at most MAX_INVALID_TURN_RETRIES
\* times; no call follows an acceptance; every rejected attempt has left
\* exactly one audit line, with the speaker, the number of the attempt and
\* the reason; the loop is left, with nothing accepted, once the last
\* attempt is rejected.
C6_RetryLoopBounded ==
  /\ backendCalls <= MAX_INVALID_TURN_RETRIES
  /\ pc = "generate"
       => /\ attempt <= MAX_INVALID_TURN_RETRIES
          /\ attempt = backendCalls + 1
          /\ accepted = <<>>
          /\ Len(auditLog) = backendCalls
  /\ pc = "exhausted"
       => /\ backendCalls = MAX_INVALID_TURN_RETRIES
          /\ accepted = <<>>
          /\ Len(auditLog) = backendCalls
  /\ pc = "accepted"
       => /\ accepted # <<>>
          /\ Len(auditLog) = backendCalls - 1
  /\ \A k \in 1..Len(auditLog) :
        /\ auditLog[k].speaker = speaker
        /\ auditLog[k].attempt = k
        /\ auditLog[k].reason \in {"empty-response", "multi-speaker-transcript"}

\* the last allowed attempt is accepted after an empty and a contaminated
\* response were discarded
C6_Witness ==
  /\ pc = "accepted"
  /\ backendCalls = MAX_INVALID_TURN_RETRIES
  /\ Len(auditLog) = 2
  /\ auditLog[1].reason = "empty-response"
  /\ auditLog[2].reason = "multi-speaker-transcript"

C8_EvaluationWindow ==
  [][(pc # "top" /\ pc' = "top")
       => /\ evaluated'
               => /\ cycleCompletedThisTurn
                  /\ cyclesSinceEval >= WORKFLOW_CYCLE_WINDOW
                  /\ pendingWorkflowCycles' = 0
                  /\ wfFile' = sanitizeWorkflowState(workflowState')
          /\ pendingWorkflowCycles' = cyclesSinceEval'
          /\ pendingWorkflowCycles' < WORKFLOW_CYCLE_WINDOW
  ]_vars

\* an evaluation at the end of the second cycle moved the stage and the
\* new state is on disk
C8_Witness ==
  /\ pc = "top"
  /\ evaluated
  /\ cyclesDone = WORKFLOW_CYCLE_WINDOW
  /\ pendingWorkflowCycles = 0
  /\ wfFile.stage = "cluster"

\* C9: a step that ends an iteration whose turn completed a cycle adds one
\* to cycle_count_in_stage, whether the turn was accepted, skipped or a
\* moderator no-op, unless the evaluation of that step reset it to 0; a step
\* that completed no cycle leaves it alone; and once a reset event (stage
\* transition, forced narrowing, fresh-run reset) has happened, the counter
\* equals the number of cycles completed since the last such event.
C9_CyclesInStageCounted ==
  [][(pc # "top" /\ pc' = "top")
       => /\ cycleCompletedThisTurn
               => \/ workflowState'.cycle_count_in_stage
                       = workflowState.cycle_count_in_stage + 1
                  \/ evaluated' /\ workflowState'.cycle_count_in_stage = 0
          /\ ~cycleCompletedThisTurn
               => workflowState'.cycle_count_in_stage = workflowState.cycle_count_in_stage
          /\ cyclesSinceEvent' >= 0
               => workflowState'.cycle_count_in_stage = cyclesSinceEvent'
  ]_vars

\* a moderator no-op completed a cycle after the last reset event and was
\* counted
C9_Witness ==
  /\ pc = "top"
  /\ lastNote = "no-intervention"
  /\ cycleCompletedThisTurn
  /\ cyclesSinceEvent >= 1
  /\ workflowState.cycle_count_in_stage = cyclesSinceEvent

(***************************************************************************)
(* trimTurnsByPersonaWindow on its own: the history, the number of cycles  *)
(* to keep and the persona speakers are drawn, the function is applied to  *)
(* the history, or to the history with one more persona turn pushed as in  *)
(* lines 1438-1441.  The loop is held at its start.                        *)
(***************************************************************************)
\* longest history drawn
MaxTrimLen == 4

\* largest KEEP_CYCLES drawn
MaxKeep == 2

\* the loop at its start, on an empty history
LoopIdle ==
  StartAt([backend |-> BackendTalk, dir |-> <<AliceFile, ModeratorFile, SecretaryFile>>,
           file |-> <<>>, workflow |-> defaultWorkflowState, advisor |-> <<>>],
          <<>>)

\* the histories are of seed, Workflow, Alice and Bob turns, turn k with a
\* content of k characters; KEEP_CYCLES is Number(process.env.KEEP_CYCLES || 6),
\* and "0" gives 0
TrimInit ==
  /\ LoopIdle
  /\ probe \in { [op |-> "trim", turns |-> h, speakers |-> ps,
                  maxPersonaTurns |-> keep * Cardinality(ps),
                  pushed |-> FALSE, out |-> <<>>, done |-> FALSE] :
                   h \in UNION { { [k \in 1..n |-> [speaker |-> who[k],
                                                     content |-> [c \in 1..k |-> "x"]]] :
                                    who \in [1..n -> {SeedName, WorkflowName,
                                                      personaFileToSpeaker(AliceFile),
                                                      personaFileToSpeaker(BobFile)}] } :
                                  n \in 0..MaxTrimLen },
                   keep \in 0..MaxKeep,
                   ps \in { {personaFileToSpeaker(AliceFile)},
                            {personaFileToSpeaker(AliceFile), personaFileToSpeaker(BobFile)} } }

TrimOnly ==
  /\ probe.op = "trim" /\ ~probe.done
  /\ probe' = [probe EXCEPT
                 !.out = trimTurnsByPersonaWindow(probe.turns, probe.maxPersonaTurns,
                                                  probe.speakers),
                 !.done = TRUE]
  /\ UNCHANGED <<loopVars, historyVars>>

PushAndTrim ==
  /\ probe.op = "trim" /\ ~probe.done
  /\ \E who \in probe.speakers :
       probe' = [probe EXCEPT
                   !.out = trimTurnsByPersonaWindow(
                             Append(probe.turns, [speaker |-> who, content |-> <<"n","e","w">>]),
                             probe.maxPersonaTurns, probe.speakers),
                   !.pushed = TRUE,
                   !.done = TRUE]
  /\ UNCHANGED <<loopVars, historyVars>>

SpecTrim == TrimInit /\ [][TrimOnly \/ PushAndTrim]_vars

C4_CutsOnlyBeyondMaximum ==
  (probe.op = "trim" /\ probe.done /\ ~probe.pushed /\ probe.maxPersonaTurns > 0)
    => /\ Len(PersonaTurnsOf(probe.turns, probe.speakers)) <= probe.maxPersonaTurns
            => probe.out = probe.turns
       /\ \A i \in 1..Len(probe.turns) :
            (/\ probe.turns[i].speaker \notin probe.speakers
             /\ \A j \in 1..Len(probe.turns) :
                  (/\ probe.turns[j].speaker \in probe.speakers
                   /\ Len(PersonaTurnsOf(Drop(probe.turns, j), probe.speakers))
                        > probe.maxPersonaTurns)
                    => j < i)
              => /\ i > Len(probe.turns) - Len(probe.out)
                 /\ probe.out[i - (Len(probe.turns) - Len(probe.out))] = probe.turns[i]

\* C4: trimming cuts at the persona turn with which the count, taken from
\* the end, reaches the maximum.  A history with fewer persona turns than
\* the maximum comes back unchanged; otherwise the result is the suffix of
\* the history that starts with that persona turn: it holds exactly the
\* maximum of persona turns, every turn after the cut keeps its position,
\* and every turn before the cut is dropped, non-persona turns included.
C4_CutsAtOldestKeptPersonaTurn ==
  (probe.op = "trim" /\ probe.done /\ ~probe.pushed /\ probe.maxPersonaTurns > 0)
    => IF Len(PersonaTurnsOf(probe.turns, probe.speakers)) < probe.maxPersonaTurns
         THEN probe.out = probe.turns
         ELSE /\ probe.out = Drop(probe.turns, Len(probe.turns) - Len(probe.out) + 1)
              /\ probe.out # <<>>
              /\ probe.out[1].speaker \in probe.speakers
              /\ Len(PersonaTurnsOf(probe.out, probe.speakers)) = probe.maxPersonaTurns

\* a history with exactly the maximum of persona turns lost the seed turn
\* in front of them
C4_Witness ==
  /\ probe.op = "trim" /\ probe.done /\ ~probe.pushed
  /\ probe.maxPersonaTurns = 2
  /\ Len(probe.turns) = 3
  /\ probe.turns[1].speaker = SeedName
  /\ Len(PersonaTurnsOf(probe.turns, probe.speakers)) = 2
  /\ probe.out = Drop(probe.turns, 2)

(***************************************************************************)
(* evaluateWorkflowState on its own: a stored state and a history are      *)
(* drawn and the function is applied.  The loop is held at its start.      *)
(***************************************************************************)
\* longest history drawn
MaxEvalTurns == 3

\* largest cycle_count_in_stage drawn
MaxEvalCount == 2

EvalSpeakers ==
  {personaFileToSpeaker(AliceFile), personaFileToSpeaker(BobFile),
   personaFileToSpeaker(ModeratorFile)}

EvalTurns ==
  { [speaker |-> personaFileToSpeaker(AliceFile), content |-> <<"-"," ","a","a","a","a","a","a","a","a","\n","-"," ","b","b","b","b","b","b","b","b">>],
    [speaker |-> personaFileToSpeaker(BobFile), content |-> <<"1","."," ","c","c","c","c","c","c","c","c","\n","2",")"," ","d","d","d","d","d","d","d","d">>],
    [speaker |-> personaFileToSpeaker(AliceFile), content |-> <<"*"," ","e","e","e","e","e","e","e","e">>],
    [speaker |-> personaFileToSpeaker(BobFile), content |-> <<"-"," ","\"","A","A","A","A","A","A","A","A","\"","\n","-"," ","s","h","o","r","t">>],
    [speaker |-> WorkflowName, content |-> <<"-"," ","f","f","f","f","f","f","f","f">>],
    [speaker |-> personaFileToSpeaker(BobFile), content |-> <<"i"," ","a","g","r","e","e"," ","a","a","a","a","a","a","a","a",".">>],
    [speaker |-> personaFileToSpeaker(AliceFile), content |-> <<"I"," ","v","o","t","e"," ","f","o","r"," ","A","a","a","a","a","a","a","a","!">>] }

EvalStates ==
  { [defaultWorkflowState EXCEPT !.stage = stage,
                                 !.cycle_count_in_stage = count,
                                 !.shortlist_options = shortlist] :
      stage \in SeqToSet(WORKFLOW_STAGES), count \in 0..MaxEvalCount,
      shortlist \in {<<>>, SubSeq(ResumedDecide.shortlist_options, 1, 1),
                     ResumedDecide.shortlist_options} }

EvalInit ==
  /\ LoopIdle
  /\ probe \in { [op |-> "eval", state |-> st, turns |-> h,
                  out |-> defaultWorkflowState, done |-> FALSE] :
                   st \in EvalStates,
                   h \in UNION { [1..n -> EvalTurns] : n \in 0..MaxEvalTurns } }

Evaluate ==
  /\ probe.op = "eval" /\ ~probe.done
  /\ probe' = [probe EXCEPT
                 !.out = evaluateWorkflowState(probe.state, probe.turns, EvalSpeakers),
                 !.done = TRUE]
  /\ UNCHANGED <<loopVars, historyVars>>

SpecEval == EvalInit /\ [][Evaluate]_vars

\* C10: an evaluation in the brainstorm stage looks at the options the
\* persona turns of the history offer, counted once per normalized form:
\* with 5 or more of them the state moves to cluster, cycle_count_in_stage
\* is 0 and the transition reason is not empty; with fewer the stage stays
\* brainstorm and cycle_count_in_stage is not touched.
C10_BrainstormToCluster ==
  (probe.op = "eval" /\ probe.done /\ probe.state.stage = "brainstorm")
    => LET offered == CollectFrom(PersonaTurnsOf(probe.turns, EvalSpeakers))
           keys == { normalizeOption(offered[k]) :
                       k \in { n \in 1..Len(offered) :
                                 Len(CollapseWs(Trim(offered[n]))) >= 8 } } \ {<<>>}
       IN  /\ Len(probe.out.candidate_options) = Min2(12, Cardinality(keys))
           /\ Cardinality(keys) >= 5
                => /\ probe.out.stage = "cluster"
                   /\ probe.out.cycle_count_in_stage = 0
                   /\ probe.out.last_transition_reason # <<>>
           /\ Cardinality(keys) < 5
                => /\ probe.out.stage = "brainstorm"
                   /\ probe.out.cycle_count_in_stage = probe.state.cycle_count_in_stage

\* three persona turns offering five distinct options between them moved a
\* brainstorm that had counted cycles to cluster
C10_Witness ==
  /\ probe.op = "eval" /\ probe.done
  /\ probe.state.stage = "brainstorm"
  /\ probe.state.cycle_count_in_stage >= 1
  /\ Len(probe.turns) = 3
  /\ Len(probe.out.candidate_options) = 5
  /\ probe.out.stage = "cluster"
  /\ probe.out.cycle_count_in_stage = 0

\* C11: an evaluation in the cluster stage acts once the pool holds 4
\* options or cycle_count_in_stage has reached 2: the shortlist becomes the
\* first 3 options of the pool (fewer when the pool is smaller), in the
\* order of the pool; with 2 or more of them the stage is shortlist and
\* cycle_count_in_stage is 0, with fewer the stage stays cluster.  Before
\* that the stage, the shortlist and the counter are left alone.  The
\* entries of the pool are at least 8 characters long and pairwise distinct
\* in normalized form.
C11_ClusterToShortlist ==
  (probe.op = "eval" /\ probe.done /\ probe.state.stage = "cluster")
    => LET pool == probe.out.candidate_options
           due == Len(pool) >= 4 \/ probe.state.cycle_count_in_stage >= 2
           survive == Min2(3, Len(pool))
       IN  /\ \A i, j \in 1..Len(pool) :
                /\ Len(pool[i]) >= 8
                /\ i # j => normalizeOption(pool[i]) # normalizeOption(pool[j])
           /\ due => /\ probe.out.shortlist_options = SubSeq(pool, 1, survive)
                     /\ survive >= 2 => /\ probe.out.stage = "shortlist"
                                        /\ probe.out.cycle_count_in_stage = 0
                     /\ survive < 2 => /\ probe.out.stage = "cluster"
                                       /\ probe.out.cycle_count_in_stage
                                            = probe.state.cycle_count_in_stage
           /\ ~due => /\ probe.out.stage = "cluster"
                      /\ probe.out.shortlist_options = probe.state.shortlist_options
                      /\ probe.out.cycle_count_in_stage = probe.state.cycle_count_in_stage

\* a cluster stage that had counted no cycle met a pool of five options and
\* moved to shortlist with the first three of them
C11_Witness ==
  /\ probe.op = "eval" /\ probe.done
  /\ probe.state.stage = "cluster"
  /\ probe.state.cycle_count_in_stage = 0
  /\ Len(probe.out.candidate_options) = 5
  /\ probe.out.stage = "shortlist"
  /\ probe.out.shortlist_options = SubSeq(probe.out.candidate_options, 1, 3)

\* C12 as stated, the entries being those of the stored shortlist: an
\* evaluation in the shortlist stage with 2 or more stored entries and
\* cycle_count_in_stage of 1 or more moves to decide with the counter at
\* 0, and with fewer than 2 stored entries the stage does not change.
C12_StoredShortlistDecides ==
  (probe.op = "eval" /\ probe.done /\ probe.state.stage = "shortlist")
    => /\ (Len(probe.state.shortlist_options) >= 2
             /\ probe.state.cycle_count_in_stage >= 1)
            => /\ probe.out.stage = "decide"
               /\ probe.out.cycle_count_in_stage = 0
       /\ Len(probe.state.shortlist_options) < 2 => probe.out.stage = "shortlist"

\* C12: an evaluation in the shortlist stage works with the stored
\* shortlist when it has 2 or more entries and otherwise with the first 3
\* options of the pool, and stores what it worked with.  With 2 or more
\* such entries and cycle_count_in_stage of 1 or more the stage becomes
\* decide and the counter 0, whatever the turns contain; in every other
\* case the stage stays shortlist and the counter is left alone.
C12_ShortlistToDecide ==
  (probe.op = "eval" /\ probe.done /\ probe.state.stage = "shortlist")
    => LET pool == probe.out.candidate_options
           entries == IF Len(probe.state.shortlist_options) >= 2
                        THEN probe.state.shortlist_options
                        ELSE SubSeq(pool, 1, Min2(3, Len(pool)))
           due == Len(entries) >= 2 /\ probe.state.cycle_count_in_stage >= 1
       IN  /\ probe.out.shortlist_options = entries
           /\ due => /\ probe.out.stage = "decide"
                     /\ probe.out.cycle_count_in_stage = 0
           /\ ~due => /\ probe.out.stage = "shortlist"
                      /\ probe.out.cycle_count_in_stage = probe.state.cycle_count_in_stage

\* a shortlist stage stored with one entry, one cycle counted, met a pool
\* of two options, took both as its shortlist and moved to decide
C12_Witness ==
  /\ probe.op = "eval" /\ probe.done
  /\ probe.state.stage = "shortlist"
  /\ Len(probe.state.shortlist_options) = 1
  /\ probe.state.cycle_count_in_stage = 1
  /\ Len(probe.out.candidate_options) = 2
  /\ probe.out.shortlist_options = probe.out.candidate_options
  /\ probe.out.stage = "decide"
  /\ probe.out.cycle_count_in_stage = 0

\* C14: an evaluation in the decide stage with cycle_count_in_stage of 1 or
\* more, where no option of the shortlist it works with (the stored one
\* when it has 2 or more entries, else the first 3 of the pool) is named,
\* together with an agreement phrase, by recent turns of 2 distinct persona
\* speakers, forces progress: the shortlist becomes the first 2 entries of
\* the stored shortlist when that has 2 or more, else the first 2 (or
\* fewer) options of the pool; cycle_count_in_stage is 0, the stage stays
\* decide, locked_decision stays empty and decide_window_failures grows by 1.
C14_ForcedNarrowing ==
  (probe.op = "eval" /\ probe.done /\ probe.state.stage = "decide"
     /\ probe.state.cycle_count_in_stage >= 1)
    => LET pool == probe.out.candidate_options
           stored == probe.state.shortlist_options
           entries == IF Len(stored) >= 2 THEN stored
                      ELSE SubSeq(pool, 1, Min2(3, Len(pool)))
           recent == PersonaTurnsOf(probe.turns, EvalSpeakers)
           backers(o) == { recent[n].speaker : n \in
                             { m \in 1..Len(recent) :
                                 /\ ContainsAnyWord(recent[m].content, agreementPhrases)
                                 /\ Includes(normalizeOption(recent[m].content),
                                             normalizeOption(o)) } }
       IN  (\A k \in 1..Len(entries) : Cardinality(backers(entries[k])) < 2)
             => /\ probe.out.shortlist_options
                     = IF Len(stored) >= 2 THEN SubSeq(stored, 1, 2)
                       ELSE SubSeq(pool, 1, Min2(2, Len(pool)))
                /\ probe.out.cycle_count_in_stage = 0
                /\ probe.out.stage = "decide"
                /\ probe.out.locked_decision = NullDecision
                /\ probe.out.decide_window_failures
                     = probe.state.decide_window_failures + 1

\* a decide stage stored with a shortlist of three, one cycle counted, saw
\* one speaker agree on an option: the shortlist was narrowed to its first
\* two entries and nothing was locked
C14_Witness ==
  /\ probe.op = "eval" /\ probe.done
  /\ probe.state.stage = "decide"
  /\ probe.state.cycle_count_in_stage = 1
  /\ Len(probe.state.shortlist_options) = 3
  /\ \E n \in 1..Len(probe.turns) :
        /\ probe.turns[n].speaker \in EvalSpeakers
        /\ ContainsAnyWord(probe.turns[n].content, agreementPhrases)
  /\ probe.out.shortlist_options = SubSeq(probe.state.shortlist_options, 1, 2)
  /\ probe.out.stage = "decide"
  /\ probe.out.locked_decision = NullDecision
  /\ probe.out.cycle_count_in_stage = 0
  /\ probe.out.decide_window_failures = 1

(***************************************************************************)
(* The decide stage on its own: a stored decide state with a shortlist of  *)
(* two options and a history of turns that name them.                      *)
(***************************************************************************)
\* longest history of votes drawn
MaxVotes == 5

DecideInit ==
  /\ LoopIdle
  /\ probe \in
       { [op |-> "eval",
          state |-> [ResumedDecide EXCEPT
                       !.shortlist_options = SubSeq(ResumedDecide.shortlist_options, 1, 2),
                       !.cycle_count_in_stage = count],
          turns |-> h, out |-> defaultWorkflowState, done |-> FALSE] :
           count \in 0..1,
           h \in UNION { [1..n ->
             { [speaker |-> personaFileToSpeaker(AliceFile), content |-> <<"I"," ","a","g","r","e","e",":"," ","a","a","a","a","a","a","a","a",".">>],
               [speaker |-> personaFileToSpeaker(BobFile), content |-> <<"I"," ","p","i","c","k"," ","a","a","a","a","a","a","a","a">>],
               [speaker |-> personaFileToSpeaker(AliceFile), content |-> <<"I"," ","s","u","p","p","o","r","t"," ","b","b","b","b","b","b","b","b">>],
               [speaker |-> personaFileToSpeaker(BobFile), content |-> <<"m","y"," ","v","o","t","e"," ","i","s"," ","b","b","b","b","b","b","b","b">>],
               [speaker |-> personaFileToSpeaker(ModeratorFile), content |-> <<"w","e"," ","s","h","o","u","l","d"," ","c","h","o","o","s","e"," ","b","b","b","b","b","b","b","b">>],
               [speaker |-> personaFileToSpeaker(ModeratorFile), content |-> <<"I"," ","a","g","r","e","e",","," ","b","b","b","b","b","b","b","b"," ","b","e","a","t","s"," ","a","a","a","a","a","a","a","a">>],
               [speaker |-> personaFileToSpeaker(BobFile), content |-> <<"b","b","b","b","b","b","b","b"," ","i","t"," ","i","s">>] }] :
                         n \in 0..MaxVotes } }

SpecDecide == DecideInit /\ [][Evaluate]_vars

\* C13 as stated, a supporter of an option being a persona speaker with a
\* recent turn that contains an agreement phrase and the option's
\* normalized text: in the decide stage, when some shortlist option has 2
\* or more distinct supporters, an option with the most supporters is the
\* locked decision and the stage is next_action; when none has, nothing is
\* locked.
C13_MostSupportedOptionLocked ==
  (probe.op = "eval" /\ probe.done /\ probe.state.stage = "decide"
     /\ Len(probe.state.shortlist_options) >= 2)
    => LET entries == probe.state.shortlist_options
           recent == PersonaTurnsOf(probe.turns, EvalSpeakers)
           backers(k) == { recent[n].speaker : n \in
                             { m \in 1..Len(recent) :
                                 /\ ContainsAnyWord(recent[m].content, agreementPhrases)
                                 /\ Includes(normalizeOption(recent[m].content),
                                             normalizeOption(entries[k])) } }
           most == { k \in 1..Len(entries) :
                       /\ Cardinality(backers(k)) >= 2
                       /\ \A j \in 1..Len(entries) :
                            Cardinality(backers(j)) <= Cardinality(backers(k)) }
       IN  IF most # {}
             THEN /\ probe.out.stage = "next_action"
                  /\ \E k \in most : probe.out.locked_decision = <<entries[k]>>
             ELSE /\ probe.out.locked_decision = NullDecision
                  /\ probe.out.stage = "decide"

\* C13: in the decide stage every recent persona turn that contains an
\* agreement phrase is counted once, for the first option of the shortlist
\* whose normalized text it contains, and the supporters of an option are
\* the distinct speakers of the turns counted for it.  When some option has
\* 2 or more supporters, the first of the options with the most supporters
\* is the locked decision and the stage is next_action; when none has,
\* nothing is locked and the stage stays decide.
C13_FirstNamedOptionCounts ==
  (probe.op = "eval" /\ probe.done /\ probe.state.stage = "decide"
     /\ Len(probe.state.shortlist_options) >= 2)
    => LET entries == probe.state.shortlist_options
           recent == PersonaTurnsOf(probe.turns, EvalSpeakers)
           named(m, k) == Includes(normalizeOption(recent[m].content),
                                   normalizeOption(entries[k]))
           backers(k) == { recent[n].speaker : n \in
                             { m \in 1..Len(recent) :
                                 /\ ContainsAnyWord(recent[m].content, agreementPhrases)
                                 /\ named(m, k)
                                 /\ \A j \in 1..(k - 1) : ~named(m, j) } }
           most == { k \in 1..Len(entries) :
                       /\ Cardinality(backers(k)) >= 2
                       /\ \A j \in 1..Len(entries) :
                            Cardinality(backers(j)) <= Cardinality(backers(k)) }
       IN  IF most # {}
             THEN /\ probe.out.stage = "next_action"
                  /\ probe.out.locked_decision
                       = <<entries[CHOOSE k \in most : \A j \in most : k <= j]>>
                  /\ probe.out.cycle_count_in_stage = 0
             ELSE /\ probe.out.locked_decision = NullDecision
                  /\ probe.out.stage = "decide"

\* five votes: two speakers for the first option, three for the second,
\* and the second option is the one locked
C13_Witness ==
  /\ probe.op = "eval" /\ probe.done
  /\ probe.state.stage = "decide"
  /\ Len(probe.turns) = 5
  /\ \A i, j \in 1..5 : i # j => probe.turns[i] # probe.turns[j]
  /\ \A i \in 1..5 : ContainsAnyWord(probe.turns[i].content, agreementPhrases)
  /\ Cardinality({ i \in 1..5 :
                     MatchedOption(probe.turns[i].content,
                                   probe.state.shortlist_options) = 1 }) = 2
  /\ probe.out.stage = "next_action"
  /\ probe.out.locked_decision = <<probe.state.shortlist_options[2]>>

(***************************************************************************)
(* The workflow state in the main loop                                     *)
(***************************************************************************)
\* C15: a step that ends an iteration never moves the stage to an earlier
\* one, and when the stage is next_action it leaves the stage, the locked
\* decision and the shortlist as they are and adds no Workflow turn to the
\* history, whether or not the step evaluates.
C15_NextActionTerminal ==
  [][(pc # "top" /\ pc' = "top")
       => /\ IndexOf(WORKFLOW_STAGES, workflowState'.stage)
               >= IndexOf(WORKFLOW_STAGES, workflowState.stage)
          /\ workflowState.stage = "next_action"
               => /\ workflowState'.stage = "next_action"
                  /\ workflowState'.locked_decision = workflowState.locked_decision
                  /\ workflowState'.shortlist_options = workflowState.shortlist_options
                  /\ wfFile'.stage = "next_action"
                  /\ Len(FilterSeq([i \in 1..Len(file') |-> file'[i].speaker], {WorkflowName}))
                       <= Len(FilterSeq([i \in 1..Len(file) |-> file[i].speaker], {WorkflowName}))
     ]_vars

\* an evaluation has just run in a next_action stage that had counted a
\* full window of cycles: the stage and the locked decision are still there
C15_Witness ==
  /\ pc = "top"
  /\ evaluated
  /\ workflowState.stage = "next_action"
  /\ workflowState.cycle_count_in_stage >= WORKFLOW_CYCLE_WINDOW
  /\ workflowState.locked_decision # NullDecision

\* C16: a step that ends an iteration changes the stage only by an
\* evaluation; when it does, the history written is the history of the
\* iteration (with the accepted turn, trimmed, when one was spoken)
\* followed by exactly one Workflow turn that announces the new state, and
\* last_transition_reason is the reason of a transition; when the stage is
\* not changed, no Workflow turn is added.
C16_TransitionAnnouncedOnce ==
  [][(pc # "top" /\ pc' = "top")
       => LET base == IF lastNote' = "turn"
                        THEN AppendAndTrim(turns, speaker, FinalResponse(speaker, accepted[1]))
                        ELSE turns
          IN  /\ workflowState'.stage # workflowState.stage
                   => /\ evaluated'
                      /\ file' = Append(base, WorkflowTurn(workflowState'))
                      /\ workflowState'.last_transition_reason
                           \in {ReasonCluster, ReasonShortlist, ReasonDecide, ReasonAgreed}
              /\ workflowState'.stage = workflowState.stage => file' = base
     ]_vars

\* an evaluation moved the stage to cluster and the history ends with the
\* accepted persona turn followed by the Workflow announcement
C16_Witness ==
  /\ pc = "top"
  /\ evaluated
  /\ lastNote = "turn"
  /\ workflowState.stage = "cluster"
  /\ Len(file) >= 2
  /\ file[Len(file)] = WorkflowTurn(workflowState)
  /\ file[Len(file) - 1].speaker \in personaSpeakers

\* C17: the head of an iteration that reads a history without a persona
\* turn sets the workflow state to the initial one (stage brainstorm, no
\* candidate or shortlist options, no locked decision, counters 0), sets
\* the pending cycles to 0 and saves that state; the head of an iteration
\* that reads a history with a persona turn leaves the workflow state, the
\* pending cycles and the saved state as they are.
C17_FreshRunReset ==
  [][(pc = "top" /\ pc' # "top")
       => IF \E i \in 1..Len(file) : file[i].speaker \in personaSpeakers
            THEN /\ workflowState' = workflowState
                 /\ pendingWorkflowCycles' = pendingWorkflowCycles
                 /\ wfFile' = wfFile
            ELSE /\ workflowState'.stage = "brainstorm"
                 /\ workflowState'.candidate_options = <<>>
                 /\ workflowState'.shortlist_options = <<>>
                 /\ workflowState'.locked_decision = NullDecision
                 /\ workflowState'.cycle_count_in_stage = 0
                 /\ workflowState'.decide_window_failures = 0
                 /\ pendingWorkflowCycles' = 0
                 /\ wfFile' = workflowState'
     ]_vars

\* a run that found a stored decide state and no history: after a cycle of
\* skipped turns had been counted, the next iteration again reads a history
\* without a persona turn and starts from the initial state
C17_Witness ==
  /\ pc = "generate"
  /\ attempt = 1
  /\ backend = BackendMarker
  /\ cyclesDone = 1
  /\ file # <<>>
  /\ ~HasPersonaHistory(file)
  /\ workflowState = defaultWorkflowState
  /\ wfFile = defaultWorkflowState
  /\ pendingWorkflowCycles = 0

(***************************************************************************)
(* hasTranscriptContamination on its own: a text of a few lines and a set  *)
(* of known speaker names are drawn and the detector is applied.           *)
(***************************************************************************)
\* most lines in a text drawn
MaxLines == 2

DetectInit ==
  /\ LoopIdle
  /\ probe \in
       { [op |-> "detect", text |-> Join(ls, <<"\n">>), known |-> kn,
          out |-> FALSE, done |-> FALSE] :
           ls \in UNION { [1..n ->
             { <<>>, <<"h","e","l","l","o">>, <<"-","-","-">>, <<" ","-","-","-">>, <<"[","x","]",":">>, <<"[","x","]",":"," ","h","i">>,
               <<"*","*","A","l","*","*",":">>, <<"*","*","A","*","*",":"," ","h","i">>, <<" ","*","*","B","o","b","*","*",":","h","i">>, <<"*","*","J","o","-","A","n","n","*","*",":"," ","h","i">>,
               <<"A","l","i","c","e",":"," ","h","i">>, <<"-"," ","A","l","i","s","e",":"," ","h","i">>, <<"P","l","a","n",":"," ","g","o">>, <<"J","o","e",":"," ","h","i">>,
               <<"J","o",":"," ","h","i">>, <<"A","l","i","c","e",":","h","i">>, <<"A","1","i","c","e","x","y",":"," ","x">>, <<"B","o",":"," ","h","i">> }] :
                          n \in 1..MaxLines },
           kn \in { {}, {<<"a","l","i","c","e">>, <<"b","o","b">>}, {<<"j","o">>}, {<<"a","l","a","n">>} } }

Detect ==
  /\ probe.op = "detect" /\ ~probe.done
  /\ probe' = [probe EXCEPT
                 !.out = hasTranscriptContamination(probe.text, probe.known),
                 !.done = TRUE]
  /\ UNCHANGED <<loopVars, historyVars>>

SpecDetect == DetectInit /\ [][Detect]_vars

\* C18 as stated, a bold label being ** followed by a name of any
\* characters but asterisks and by **: at the start of a line: a text with
\* a line that is exactly ---, a line of the form [something]: or a line
\* that begins with a bold label is contaminated, whatever names are known.
C18_AnyBoldNameFlagged ==
  (probe.op = "detect" /\ probe.done)
    => LET lines == SplitLines(probe.text)
           bold(l) == /\ StartsWith(l, <<"*","*">>)
                      /\ \E n \in 1..(Len(l) - 5) :
                            /\ \A i \in 3..(n + 2) : l[i] # "*"
                            /\ SubSeq(l, n + 3, n + 5) = <<"*","*",":">>
       IN  (\E k \in 1..Len(lines) :
              \/ lines[k] = <<"-","-","-">>
              \/ Len(lines[k]) >= 4 /\ lines[k][1] = "["
                   /\ EndsWith(lines[k], <<"]",":">>)
              \/ bold(lines[k]))
             => probe.out

\* C18: a text is contaminated, whatever names are known, when one of its
\* lines is exactly ---, or begins with [ and ends with ]:, or, leading
\* blanks aside, begins with ** followed by a name and **: where the name
\* is a letter followed by 1 to 25 letters, digits, underscores or spaces.
C18_MarkersAndBoldLabels ==
  (probe.op = "detect" /\ probe.done)
    => LET lines == SplitLines(probe.text)
           bold(l) == /\ StartsWith(l, <<"*","*">>)
                      /\ \E n \in 2..26 :
                            /\ Len(l) >= n + 5
                            /\ l[3] \in LetterSet
                            /\ \A i \in 3..(n + 2) : l[i] \in NameClass
                            /\ SubSeq(l, n + 3, n + 5) = <<"*","*",":">>
       IN  (\E k \in 1..Len(lines) :
              \/ lines[k] = <<"-","-","-">>
              \/ Len(lines[k]) >= 3 /\ lines[k][1] = "["
                   /\ EndsWith(lines[k], <<"]",":">>)
              \/ bold(TrimStart(lines[k])))
             => probe.out

\* with no name known, a text whose only suspect line is an indented bold
\* label is contaminated
C18_Witness ==
  /\ probe.op = "detect" /\ probe.done
  /\ probe.known = {}
  /\ probe.text = <<"h","e","l","l","o","\n"," ","*","*","B","o","b","*","*",":","h","i">>
  /\ probe.out

\* C19 as stated: a text without a marker, a bracketed label or a bold
\* label is contaminated exactly when one of its lines begins, after an
\* optional bullet, with a label and ": ", where the label, lower-cased and
\* stripped of non-letters, is not an excluded common label and either is
\* a known name or is within edit distance 2 of a known name whose length
\* differs from its own by at most 2.
C19_LabelNearAnyKnownName ==
  (probe.op = "detect" /\ probe.done /\ ~TRANSCRIPT_MARKER(probe.text)
     /\ \A k \in 1..Len(SplitLines(probe.text)) :
           ~BoldLabelLine(Trim(SplitLines(probe.text)[k])))
    => LET lines == SplitLines(probe.text)
           body(t) == IF Len(t) >= 2 /\ t[1] \in {"-", "*"} /\ t[2] \in WhiteSet
                        THEN TrimStart(Drop(t, 2)) ELSE t
           speakerLike(label) ==
             LET norm == FilterChars(ToLower(label), LowerSet)
             IN  /\ norm \notin commonNonSpeakerLabels
                 /\ \/ norm \in probe.known
                    \/ \E kn \in probe.known :
                         /\ AbsDiff(Len(kn), Len(norm)) <= 2
                         /\ editDistance(norm, kn) <= 2
           labelled(b) == \E n \in 2..26 :
                             /\ Len(b) >= n + 2
                             /\ b[1] \in LetterSet
                             /\ \A i \in 1..n : b[i] \in NameClass
                             /\ b[n + 1] = ":"
                             /\ b[n + 2] \in WhiteSet
                             /\ speakerLike(SubSeq(b, 1, n))
       IN  probe.out <=> \E k \in 1..Len(lines) : labelled(body(Trim(lines[k])))

\* C19: a text without a marker, a bracketed label or a bold label is
\* contaminated exactly when one of its lines begins, after an optional
\* bullet, with a label and ": ", where the label, lower-cased and stripped
\* of non-letters, is not an excluded common label and either is a known
\* name or is within edit distance 2 of a known name that has 3 or more
\* characters and whose length differs from its own by at most 2.
C19_LabelNearKnownName ==
  (probe.op = "detect" /\ probe.done /\ ~TRANSCRIPT_MARKER(probe.text)
     /\ \A k \in 1..Len(SplitLines(probe.text)) :
           ~BoldLabelLine(Trim(SplitLines(probe.text)[k])))
    => LET lines == SplitLines(probe.text)
           body(t) == IF Len(t) >= 2 /\ t[1] \in {"-", "*"} /\ t[2] \in WhiteSet
                        THEN TrimStart(Drop(t, 2)) ELSE t
           speakerLike(label) ==
             LET norm == FilterChars(ToLower(label), LowerSet)
             IN  /\ norm \notin commonNonSpeakerLabels
                 /\ \/ norm \in probe.known
                    \/ \E kn \in probe.known :
                         /\ Len(kn) >= 3
                         /\ AbsDiff(Len(kn), Len(norm)) <= 2
                         /\ editDistance(norm, kn) <= 2
           labelled(b) == \E n \in 2..26 :
                             /\ Len(b) >= n + 2
                             /\ b[1] \in LetterSet
                             /\ \A i \in 1..n : b[i] \in NameClass
                             /\ b[n + 1] = ":"
                             /\ b[n + 2] \in WhiteSet
                             /\ speakerLike(SubSeq(b, 1, n))
       IN  probe.out <=> \E k \in 1..Len(lines) : labelled(body(Trim(lines[k])))

\* the excluded label Plan, one edit away from the known name alan, did
\* not make its text contaminated
C19_Witness ==
  /\ probe.op = "detect" /\ probe.done
  /\ probe.known = {<<"a","l","a","n">>}
  /\ probe.text = <<"P","l","a","n",":"," ","g","o">>
  /\ ~probe.out

(***************************************************************************)
(* The moderator in the main loop                                          *)
(***************************************************************************)
\* C20: a step that ends an iteration in which the Moderator's response was
\* accepted.  When the response is a remark of 1 or 2 sentences and at most
\* 260 characters with a process word and no content-pitch word, and not
\* the sentinel, the turn appended to the history is the Moderator's with
\* exactly that text.  Every other response, the sentinel NO_INTERVENTION
\* (in any case, with or without a final dot) included, ends the iteration
\* with the no-intervention note and adds no turn to the history but the
\* Workflow announcement of a stage transition.
C20_ModeratorStrictMode ==
  [][(pc = "accepted" /\ pc' = "top" /\ speaker = ModeratorName /\ accepted # <<>>)
       => LET raw == accepted[1]
              sentinel == ToLower(raw) \in {ToLower(NO_INTERVENTION),
                                            ToLower(NO_INTERVENTION) \o <<".">>}
              nudge == /\ ContainsAnyWord(raw, processHint)
                       /\ ~ContainsAnyWord(raw, contentPitch)
                       /\ sentenceCount(raw) \in 1..2
                       /\ Len(raw) <= 260
              spoken == [speaker |-> ModeratorName, content |-> raw]
          IN  IF nudge /\ ~sentinel
                THEN /\ lastNote' = "turn"
                     /\ \/ file'[Len(file')] = spoken
                        \/ /\ file'[Len(file')] = WorkflowTurn(workflowState')
                           /\ file'[Len(file') - 1] = spoken
                ELSE /\ lastNote' = "no-intervention"
                     /\ file' \in {file, Append(file, WorkflowTurn(workflowState'))}
     ]_vars

\* the history ends with a Moderator remark of exactly 260 characters, kept
\* as it was said, and the iteration after it has ended with the
\* no-intervention note without touching the history
C20_Witness ==
  /\ pc = "top"
  /\ speaker = ModeratorName
  /\ lastNote = "no-intervention"
  /\ file # <<>>
  /\ file[Len(file)].speaker = ModeratorName
  /\ Len(file[Len(file)].content) = 260

C28_AppendAndDropPrefixOnly ==
  [][\E d \in 0..Len(file) :
        LET kept == Drop(file, d + 1)
        IN  /\ Len(file') >= Len(kept)
            /\ SubSeq(file', 1, Len(kept)) = kept
            /\ Len(file') - Len(kept) <= IF pc = "top" THEN 3 ELSE 2
            /\ d > 0 => /\ pc = "accepted"
                        /\ lastNote' = "turn"
                        /\ maxPersonaTurns > 0
                        /\ Len(PersonaTurnsOf(file, personaSpeakers)) + 1 >= maxPersonaTurns
     ]_vars

\* a committed turn has pushed the seed and the first announcement out of
\* the history, which now begins with a persona turn and still holds three
\* turns or more
C28_Witness ==
  /\ pc = "top"
  /\ lastNote = "turn"
  /\ Len(file) >= 3
  /\ file[1].speaker \in personaSpeakers
  /\ file[Len(file)].speaker \in personaSpeakers

\* C21: while a turn is being generated, nothing is written to the history
\* and the workflow state is neither evaluated nor saved.  A step that ends
\* an iteration commits the accepted turn as the last turn of the history;
\* when it evaluates, the iteration has completed a cycle, the evaluator is
\* given exactly the committed history (the persisted history without the
\* announcement), and the announcement of a transition comes after it.
C21_EvaluationAfterCommit ==
  [][/\ pc = "generate"
          => /\ file' = file
             /\ workflowState' = workflowState
             /\ wfFile' = wfFile
             /\ pendingWorkflowCycles' = pendingWorkflowCycles
     /\ (pc # "top" /\ pc' = "top")
          => LET announced == /\ workflowState'.stage # workflowState.stage
                              /\ file' # <<>>
                              /\ file'[Len(file')] = WorkflowTurn(workflowState')
                 committed == IF announced THEN SubSeq(file', 1, Len(file') - 1)
                              ELSE file'
             IN  /\ lastNote' = "turn"
                      => /\ committed # <<>>
                         /\ committed[Len(committed)]
                              = [speaker |-> speaker,
                                 content |-> FinalResponse(speaker, accepted[1])]
                 /\ lastNote' # "turn" => committed = file
                 /\ workflowState'.stage # workflowState.stage => announced
                 /\ evaluated'
                      => /\ cycleCompletedThisTurn
                         /\ workflowState'
                              = evaluateWorkflowState(
                                  [workflowState EXCEPT
                                     !.cycle_count_in_stage
                                        = workflowState.cycle_count_in_stage + 1],
                                  committed, personaSpeakers)
     ]_vars

\* the turn that completed the second cycle was committed, the evaluation
\* that followed locked a decision, and the announcement comes right after
\* the turn in the history
C21_Witness ==
  /\ pc = "top"
  /\ evaluated
  /\ lastNote = "turn"
  /\ workflowState.stage = "next_action"
  /\ Len(file) >= 2
  /\ file[Len(file)] = WorkflowTurn(workflowState)
  /\ file[Len(file) - 1].speaker = speaker

\* C22: wherever the process is stopped between two of its steps (a write
\* of the history file being one step), the persisted history holds whole
\* accepted turns only.  A pass of the retry loop writes nothing to the
\* history, so neither a response in progress nor a rejected attempt is ever
\* in it; between the head of an iteration and its end the persisted history
\* is the in-memory one.  The only persona turn a step adds is the accepted
\* response of the iteration, a response that passed validation, and it is
\* in the persisted history when the step that ends that iteration is done,
\* that is before the next iteration starts generating.  No other step
\* removes a persona turn from the persisted history.
C22_OnlyWholeAcceptedTurnsPersisted ==
  [][/\ pc # "top" => file = turns
     /\ pc = "generate" => file' = file
     /\ \A i \in 1..Len(file') :
          \/ \E k \in 1..Len(file) : file[k] = file'[i]
          \/ file'[i].speaker \in {SeedName, NarratorName, WorkflowName}
          \/ /\ pc = "accepted"
             /\ accepted # <<>>
             /\ \E response \in backend :
                  LET result == generateAttempt(response, knownSpeakerNames)
                  IN  result.ok /\ result.fullResponse = accepted[1]
             /\ i >= Len(file') - 1
             /\ file'[i] = [speaker |-> speaker,
                            content |-> FinalResponse(speaker, accepted[1])]
     /\ lastNote' = "turn"
          => /\ pc' = "top"
             /\ \E i \in 1..Len(file') :
                  file'[i] = [speaker |-> speaker,
                              content |-> FinalResponse(speaker, accepted[1])]
     /\ pc # "accepted"
          => PersonaTurnsOf(file', personaSpeakers) = PersonaTurnsOf(file, personaSpeakers)
     ]_vars

\* an iteration is generating after one of its attempts was rejected, and
\* the persisted history holds the turn accepted in the iteration before
C22_Witness ==
  /\ pc = "generate"
  /\ auditLog # <<>>
  /\ cyclesDone >= 1
  /\ file = turns
  /\ \E i \in 1..Len(file) :
       /\ file[i].speaker \in personaSpeakers
       /\ \A k \in 1..Len(ResumedFile) : ResumedFile[k] # file[i]

\* C25: a backend call that fails ends the process in the pass of the retry
\* loop that made it: the pass is not counted as a rejected attempt (no
\* audit line, the attempt number stays), no step follows, so the request is
\* not sent again, nothing is accepted and no turn is appended, and the
\* persisted history and workflow state are the ones the iteration found.
C25_BackendFailureIsFatal ==
  [][/\ ~(pc = "thrown" /\ lastNote = "Ollama error")
     /\ lastNote' = "Ollama error"
          => /\ pc = "generate"
             /\ pc' = "thrown"
             /\ backendCalls' = backendCalls + 1
             /\ attempt' = attempt
             /\ auditLog' = auditLog
             /\ accepted' = <<>>
             /\ file' = file
             /\ file' = turns
             /\ wfFile' = wfFile
     ]_vars

\* the backend failed on the second attempt of an iteration, after an
\* earlier iteration had its turn accepted and persisted
C25_Witness ==
  /\ pc = "thrown"
  /\ lastNote = "Ollama error"
  /\ attempt = 2
  /\ backendCalls = 2
  /\ Len(auditLog) = 1
  /\ \E i \in 1..Len(file) :
       /\ file[i].speaker \in personaSpeakers
       /\ \A k \in 1..Len(ResumedFile) : ResumedFile[k] # file[i]

\* C26: with an empty persona set the process ends before the loop does
\* anything: the step that ends it has written no seed, Workflow or Narrator
\* turn to the history and has not touched the workflow state or its file.
C26_EmptyPersonaSetStopsAtStartup ==
  [][allPersonaFiles = <<>>
       => /\ pc' = "thrown"
          /\ file' = file
          /\ wfFile' = wfFile
          /\ workflowState' = workflowState
          /\ lastAdvisorTime' = lastAdvisorTime
     ]_vars

(***************************************************************************)
(* Startup: model detection (lines 383-444) and the reading of the         *)
(* persisted files.  A model name "family:tag" is the record of its two    *)
(* parts, so that m.startsWith("llama3.2:") is m.family = "llama3.2".      *)
(***************************************************************************)
(***************************************************************************)
(* The persisted files as JSON.parse returns them.  A value of JS is a     *)
(* record tagged with its type: [t |-> "null"], [t |-> "boolean", b |-> x],*)
(* [t |-> "number", n |-> i], [t |-> "NaN"], [t |-> "string", s |-> q],    *)
(* [t |-> "array", a |-> <<...>>] and [t |-> "object", o |-> [key |-> ..]]*)
(* where a key the object lacks holds [t |-> "undefined"].                 *)
(***************************************************************************)
\* Number(x); of the numeric literals a string can hold, the decimal
\* integers are read
RECURSIVE ToNumber(_)
ToNumber(x) ==
  LET Digits == <<"0","1","2","3","4","5","6","7","8","9">>
      Value(s) == LET V[n \in 0..Len(s)] ==
                        IF n = 0 THEN 0 ELSE 10 * V[n - 1] + IndexOf(Digits, s[n])
                  IN  V[Len(s)]
      OfString(s) ==
        IF s = <<>> THEN [t |-> "number", n |-> 0]
        ELSE IF \A i \in 1..Len(s) : s[i] \in DigitSet
          THEN [t |-> "number", n |-> Value(s)]
        ELSE IF Len(s) > 1 /\ s[1] = "-" /\ \A i \in 2..Len(s) : s[i] \in DigitSet
          THEN [t |-> "number", n |-> 0 - Value(Tail(s))]
        ELSE [t |-> "NaN"]
  IN  CASE x.t = "number" -> x
        [] x.t = "boolean" -> [t |-> "number", n |-> IF x.b THEN 1 ELSE 0]
        [] x.t = "null" -> [t |-> "number", n |-> 0]
        [] x.t = "string" -> OfString(Trim(x.s))
        [] x.t = "array" -> IF Len(x.a) = 0 THEN [t |-> "number", n |-> 0]
                            ELSE IF Len(x.a) = 1 /\ x.a[1].t \in {"null", "undefined"}
                              THEN [t |-> "number", n |-> 0]
                            ELSE IF Len(x.a) = 1 /\ x.a[1].t \in {"number", "string", "array"}
                              THEN ToNumber(x.a[1])
                            ELSE [t |-> "NaN"]
        [] OTHER -> [t |-> "NaN"]

\* lines 643-659 on the value JSON.parse returns.  The counters of the
\* result are numbers of JS, the other fields are as in the states of the
\* loop.
sanitizeWorkflowStateJson(state) ==
  LET base == defaultWorkflowState
      \* the truthiness "x || 0" and "!state" test
      Truthy(x) == /\ x.t \notin {"undefined", "null", "NaN"}
                   /\ x.t = "boolean" => x.b
                   /\ x.t = "number" => x.n # 0
                   /\ x.t = "string" => x.s # <<>>
      next(key) == IF state.t = "object" THEN state.o[key] ELSE [t |-> "undefined"]
      counter(key) ==
        IF next(key).t = "undefined" THEN [t |-> "number", n |-> base[key]]
        ELSE LET num == ToNumber(IF Truthy(next(key)) THEN next(key)
                                 ELSE [t |-> "number", n |-> 0])
             IN  IF num.t = "NaN" THEN num ELSE [t |-> "number", n |-> Max2(0, num.n)]
      options(key, limit) ==
        IF next(key).t # "array" THEN <<>>
        ELSE LET items == SelectSeq(next(key).a, LAMBDA item : item.t = "string")
             IN  cleanOptionList([i \in 1..Len(items) |-> items[i].s], limit)
      text(key) == IF next(key).t = "string" THEN Trim(next(key).s) ELSE <<>>
  IN  IF ~Truthy(state) \/ state.t \notin {"object", "array"}
        THEN [base EXCEPT
                !.cycle_count_in_stage = [t |-> "number", n |-> 0],
                !.decide_window_failures = [t |-> "number", n |-> 0]]
        ELSE [ stage |-> IF /\ next("stage").t = "string"
                            /\ \E st \in SeqToSet(WORKFLOW_STAGES) : StageText(st) = next("stage").s
                           THEN CHOOSE st \in SeqToSet(WORKFLOW_STAGES) :
                                  StageText(st) = next("stage").s
                           ELSE base.stage,
               cycle_count_in_stage |-> counter("cycle_count_in_stage"),
               candidate_options |-> options("candidate_options", 12),
               shortlist_options |-> options("shortlist_options", 3),
               locked_decision |-> IF text("locked_decision") # <<>>
                                     THEN <<text("locked_decision")>> ELSE NullDecision,
               last_transition_reason |-> IF text("last_transition_reason") # <<>>
                                            THEN text("last_transition_reason")
                                            ELSE base.last_transition_reason,
               decide_window_failures |-> counter("decide_window_failures") ]

\* lines 661-672: content is [t |-> "missing"] when the file cannot be read,
\* [t |-> "unparsable"] when JSON.parse throws, else the value parsed; the
\* default state is written to the file when the catch clause runs
loadWorkflowStateJson(content) ==
  IF content.t \in {"missing", "unparsable"}
    THEN [state |-> sanitizeWorkflowStateJson([t |-> "null"]), written |-> TRUE,
          thrown |-> FALSE]
    ELSE [state |-> sanitizeWorkflowStateJson(content), written |-> FALSE, thrown |-> FALSE]

\* lines 1211-1230: the history the head of an iteration reads.  content is
\* [t |-> "missing"], [t |-> "blank"] (nothing but white space),
\* [t |-> "unparsable"] or the value parsed.  turns.some(...) visits the
\* elements up to the first turn of a persona and reads .speaker of each,
\* which throws a TypeError on null.
readTurnsJson(content, speakers) ==
  LET read == IF content.t = "array" THEN content.a ELSE <<>>
      byPersona(turn) == /\ turn.t = "object"
                         /\ turn.o.speaker.t = "string"
                         /\ turn.o.speaker.s \in speakers
      visited == IF \E i \in 1..Len(read) : byPersona(read[i])
                   THEN CHOOSE i \in 1..Len(read) :
                          byPersona(read[i]) /\ \A k \in 1..(i - 1) : ~byPersona(read[k])
                   ELSE Len(read)
      hasPersonaHistory == \E i \in 1..Len(read) : byPersona(read[i])
  IN  IF WORKFLOW_ENABLED /\ \E i \in 1..visited : read[i].t = "null"
        THEN [thrown |-> TRUE, turns |-> read, reset |-> FALSE, seeded |-> FALSE]
        ELSE [thrown |-> FALSE, turns |-> read,
              reset |-> WORKFLOW_ENABLED /\ ~hasPersonaHistory,
              seeded |-> Len(read) = 0]

\* a detection that falls back on a default model when the server gives no list
detectModelWithFallback(server, availableModels, wanted) ==
  IF server # "ok" \/ availableModels = <<>>
    THEN [exit |-> FALSE, MODEL |-> [family |-> "llama3.2", tag |-> "1b"]]
  ELSE IF wanted # <<>> /\ wanted[1] \notin SeqToSet(availableModels)
    THEN [exit |-> TRUE]
  ELSE [exit |-> FALSE, MODEL |-> IF wanted # <<>> THEN wanted[1] ELSE availableModels[1]]

\* lines 386-444: server is what fetch of /api/tags gives ("unreachable"
\* when it rejects, "error" when the answer is not OK, "ok" otherwise),
\* availableModels the names listed in the answer, wanted the value of
\* OLLAMA_MODEL (<<>> when unset or empty)
detectModel(server, availableModels, wanted) ==
  IF server # "ok" THEN [exit |-> TRUE]
  ELSE IF Len(availableModels) = 0 THEN [exit |-> TRUE]
  ELSE IF wanted = <<>>
    THEN LET family(f) == SelectSeq(availableModels, LAMBDA m : m.family = f)
             preferred == << [family |-> "llama3.2", tag |-> "1b"],
                             [family |-> "llama3.2", tag |-> "3b"],
                             [family |-> "llama3.2", tag |-> "latest"] >>
                          \o family("llama3.2") \o family("llama3.1")
                          \o family("llama3") \o family("llama2") \o availableModels
             found == SelectSeq(preferred, LAMBDA m : m \in SeqToSet(availableModels))
         IN  [exit |-> FALSE, MODEL |-> IF found # <<>> THEN found[1] ELSE availableModels[1]]
  ELSE IF wanted[1] \notin SeqToSet(availableModels) THEN [exit |-> TRUE]
  ELSE [exit |-> FALSE, MODEL |-> wanted[1]]

\* most models in the answer of the server
MaxModels == 2

\* most elements in a history read at startup
MaxTurnsRead == 2

StartupInit ==
  /\ LoopIdle
  /\ probe \in
       { [op |-> "format", state |-> [stage |-> st, cycle_count_in_stage |-> n,
                                     candidate_options |-> cs, shortlist_options |-> sl,
                                     locked_decision |-> ld, last_transition_reason |-> r,
                                     decide_window_failures |-> fl],
          outs |-> <<>>] :
           st \in SeqToSet(WORKFLOW_STAGES), n \in {0, 2},
           cs \in {<<>>, ResumedDecide.candidate_options},
           sl \in {<<>>, SubSeq(ResumedDecide.shortlist_options, 1, 1),
                   ResumedDecide.shortlist_options},
           ld \in {NullDecision, <<ResumedDecide.shortlist_options[2]>>},
           r \in {<<>>, ReasonInitial, ReasonDecide}, fl \in {0, 1} }
       \cup
       { [op |-> "load", done |-> FALSE, out |-> [thrown |-> FALSE],
          content |-> [t |-> "object",
                       o |-> [stage |-> st, cycle_count_in_stage |-> n,
                              candidate_options |-> cs, shortlist_options |-> sl,
                              locked_decision |-> ld, last_transition_reason |-> r,
                              decide_window_failures |-> fl]]] :
           st \in { [t |-> "undefined"], [t |-> "string", s |-> StageText("decide")],
                    [t |-> "string", s |-> <<"b","o","g","u","s">>], [t |-> "number", n |-> 3] },
           n \in { [t |-> "undefined"], [t |-> "null"], [t |-> "number", n |-> 0 - 2],
                   [t |-> "number", n |-> 4], [t |-> "string", s |-> <<"7">>],
                   [t |-> "string", s |-> <<"a","b","c">>] },
           cs \in { [t |-> "undefined"], [t |-> "string", s |-> <<"x">>],
                    [t |-> "array",
                     a |-> << [t |-> "string", s |-> [k \in 1..8 |-> "a"]],
                              [t |-> "number", n |-> 5],
                              [t |-> "string", s |-> <<" ">> \o [k \in 1..8 |-> "A"]],
                              [t |-> "string", s |-> <<"s","h","o","r","t">>],
                              [t |-> "string", s |-> [k \in 1..8 |-> "b"]] >>],
                    [t |-> "array",
                     a |-> [i \in 1..13 |-> [t |-> "string",
                                              s |-> [k \in 1..8 |-> LowerSeq[i]]]]] },
           sl \in { [t |-> "undefined"],
                    [t |-> "array",
                     a |-> [i \in 1..4 |-> [t |-> "string",
                                             s |-> [k \in 1..8 |-> LowerSeq[i]]]]] },
           ld \in { [t |-> "undefined"], [t |-> "null"], [t |-> "number", n |-> 1],
                    [t |-> "string", s |-> <<" "," ">>],
                    [t |-> "string", s |-> <<" ">> \o [k \in 1..8 |-> "b"]] },
           r \in { [t |-> "undefined"], [t |-> "string", s |-> <<>>],
                   [t |-> "string", s |-> <<" ","w","h","y"," ">>] },
           fl \in { [t |-> "undefined"], [t |-> "number", n |-> 0 - 1],
                    [t |-> "boolean", b |-> TRUE] } }
       \cup
       { [op |-> "load", done |-> FALSE, out |-> [thrown |-> FALSE], content |-> c] :
           c \in { [t |-> "missing"], [t |-> "unparsable"], [t |-> "null"],
                   [t |-> "number", n |-> 5], [t |-> "string", s |-> <<"x">>],
                   [t |-> "array", a |-> <<>>] } }
       \cup
       { [op |-> "history", done |-> FALSE, out |-> [thrown |-> FALSE], content |-> c] :
           c \in { [t |-> "missing"], [t |-> "blank"], [t |-> "unparsable"], [t |-> "null"],
                   [t |-> "number", n |-> 5], [t |-> "string", s |-> <<"x">>],
                   [t |-> "object", o |-> [speaker |-> [t |-> "string", s |-> SeedName],
                                           content |-> [t |-> "string", s |-> <<"g","o">>]]] }
                 \cup
                 { [t |-> "array", a |-> q] :
                     q \in UNION { [1..n ->
                       { [t |-> "null"], [t |-> "number", n |-> 5],
                         [t |-> "object", o |-> [speaker |-> [t |-> "string", s |-> SeedName],
                                                 content |-> [t |-> "string", s |-> <<"g","o">>]]],
                         [t |-> "object",
                          o |-> [speaker |-> [t |-> "string",
                                              s |-> personaFileToSpeaker(AliceFile)],
                                 content |-> [t |-> "string", s |-> <<"h","i">>]]],
                         [t |-> "object", o |-> [speaker |-> [t |-> "undefined"],
                                                 content |-> [t |-> "string", s |-> <<"h","i">>]]],
                         [t |-> "object", o |-> [speaker |-> [t |-> "number", n |-> 1],
                                                 content |-> [t |-> "undefined"]]] }] :
                                    n \in 0..MaxTurnsRead } } }
       \cup
       { [op |-> "startup", server |-> sv, availableModels |-> ms, wanted |-> w,
          step |-> "detect", MODEL |-> <<>>, created |-> FALSE] :
           sv \in {"unreachable", "error", "ok"},
           ms \in { q \in UNION { [1..n -> { [family |-> "llama3.2", tag |-> "latest"],
                                             [family |-> "llama3.2", tag |-> "3b"],
                                             [family |-> "llama3.1", tag |-> "8b"],
                                             [family |-> "llama3", tag |-> "8b"],
                                             [family |-> "llama2", tag |-> "7b"],
                                             [family |-> "mistral", tag |-> "latest"] }] :
                                    n \in 0..MaxModels } :
                      \A i, k \in 1..Len(q) : q[i] = q[k] => i = k },
           w \in { <<>>, <<[family |-> "llama3.2", tag |-> "latest"]>>,
                   <<[family |-> "mistral", tag |-> "latest"]>>,
                   <<[family |-> "gpt", tag |-> "4"]>> } }

\* lines 383-444: the process exits (process.exit(1)) or MODEL is set
DetectModel ==
  /\ probe.op = "startup" /\ probe.step = "detect"
  /\ LET d == detectModel(probe.server, probe.availableModels, probe.wanted)
     IN  probe' = IF d.exit THEN [probe EXCEPT !.step = "exited"]
                  ELSE [probe EXCEPT !.step = "detected", !.MODEL = <<d.MODEL>>]
  /\ UNCHANGED <<loopVars, historyVars>>

\* lines 1148-1150 and 1206: FILE, LOG_FILE and ADVISOR_LOG are created when
\* missing and the workflow state is loaded; the turn loop follows
CreateFiles ==
  /\ probe.op = "startup" /\ probe.step = "detected"
  /\ probe' = [probe EXCEPT !.step = "loop", !.created = TRUE]
  /\ UNCHANGED <<loopVars, historyVars>>

\* lines 889-890: the text of an announcement is asked for
FormatMessage ==
  /\ probe.op = "format" /\ Len(probe.outs) < 2
  /\ probe' = [probe EXCEPT !.outs = Append(probe.outs, formatWorkflowMessage(probe.state))]
  /\ UNCHANGED <<loopVars, historyVars>>

\* line 1206: the workflow state is loaded
LoadWorkflowState ==
  /\ probe.op = "load" /\ ~probe.done
  /\ probe' = [probe EXCEPT !.out = loadWorkflowStateJson(probe.content), !.done = TRUE]
  /\ UNCHANGED <<loopVars, historyVars>>

\* lines 1211-1230: the head of the first iteration reads the history
ReadHistory ==
  /\ probe.op = "history" /\ ~probe.done
  /\ probe' = [probe EXCEPT !.out = readTurnsJson(probe.content, personaSpeakers),
                            !.done = TRUE]
  /\ UNCHANGED <<loopVars, historyVars>>

SpecStartup ==
  StartupInit
    /\ [][DetectModel \/ CreateFiles \/ FormatMessage \/ LoadWorkflowState \/ ReadHistory]_vars

C29_AnnouncementTextPure ==
  [][probe.op = "format"
       => LET s == probe.state
              projected == [defaultWorkflowState EXCEPT
                              !.stage = s.stage,
                              !.shortlist_options = s.shortlist_options,
                              !.locked_decision = s.locked_decision,
                              !.last_transition_reason = s.last_transition_reason]
          IN  /\ probe'.state = s
              /\ UNCHANGED <<loopVars, historyVars>>
              /\ Len(probe'.outs) = Len(probe.outs) + 1
              /\ probe'.outs[Len(probe'.outs)] = formatWorkflowMessage(projected)
              /\ \A i \in 1..Len(probe'.outs) : probe'.outs[i] = probe'.outs[1]
     ]_vars

\* a state with cycles counted, candidates, a shortlist, a locked decision
\* and one decide window failed was formatted twice
C29_Witness ==
  /\ probe.op = "format"
  /\ Len(probe.outs) = 2
  /\ probe.state.cycle_count_in_stage = 2
  /\ probe.state.decide_window_failures = 1
  /\ probe.state.candidate_options # <<>>
  /\ Len(probe.state.shortlist_options) = 3
  /\ probe.state.locked_decision # NullDecision

\* C23: whatever a parsable workflow state file holds, loading it gives a
\* well-formed workflow state: the stage is one of the five, and is
\* brainstorm when the stored one is not; the two counters are numbers that
\* are at least 0, and are 0 when the stored one is negative or missing; the
\* option lists hold at most 12 and 3 options, no two with the same
\* normalized form; the locked decision is null or a non-blank string and
\* the reason is a non-blank string.
C23_LoadedStateWellFormed ==
  (probe.op = "load" /\ probe.done)
    => LET s == probe.out.state
           stored(key) == IF probe.content.t = "object" THEN probe.content.o[key]
                          ELSE [t |-> "undefined"]
           counterOk(key) ==
             /\ s[key].t = "number"
             /\ s[key].n >= 0
             /\ (\/ stored(key).t = "undefined"
                 \/ stored(key).t = "number" /\ stored(key).n < 0) => s[key].n = 0
           listOk(q, limit) ==
             /\ Len(q) <= limit
             /\ \A i, k \in 1..Len(q) : normalizeOption(q[i]) = normalizeOption(q[k]) => i = k
       IN  /\ ~probe.out.thrown
           /\ s.stage \in SeqToSet(WORKFLOW_STAGES)
           /\ ~(/\ stored("stage").t = "string"
                /\ \E st \in SeqToSet(WORKFLOW_STAGES) : StageText(st) = stored("stage").s)
                => s.stage = "brainstorm"
           /\ counterOk("cycle_count_in_stage")
           /\ counterOk("decide_window_failures")
           /\ listOk(s.candidate_options, 12)
           /\ listOk(s.shortlist_options, 3)
           /\ s.locked_decision # NullDecision => Trim(s.locked_decision[1]) # <<>>
           /\ Trim(s.last_transition_reason) # <<>>

\* C24: whatever the two files hold, reading them does not end the process:
\* a history that is not an array of turns, each with a speaker and a
\* content that are strings, is read as the empty history, so that the run
\* is seeded again and the workflow state reset, and a workflow state file
\* that cannot be read or parsed gives the default state.
C24_MalformedStateRecovered ==
  /\ (probe.op = "history" /\ probe.done)
       => LET c == probe.content
              wellShaped == /\ c.t = "array"
                            /\ \A i \in 1..Len(c.a) :
                                 /\ c.a[i].t = "object"
                                 /\ c.a[i].o.speaker.t = "string"
                                 /\ c.a[i].o.content.t = "string"
          IN  /\ ~probe.out.thrown
              /\ ~wellShaped => /\ probe.out.turns = <<>>
                                /\ probe.out.seeded
                                /\ probe.out.reset
  /\ (probe.op = "load" /\ probe.done /\ probe.content.t \in {"missing", "unparsable"})
       => /\ ~probe.out.thrown
          /\ probe.out.state = sanitizeWorkflowStateJson([t |-> "null"])

C40_NoPersonaTwiceInARow ==
  [][(/\ pc = "top" /\ pc' \notin {"top", "thrown"}
      /\ cycleLog # <<>>
      /\ availableSpecialPersonas # <<>>
      /\ Len(allPersonaFiles) >= 2)
       => cycleLog'[Len(cycleLog')] # cycleLog[Len(cycleLog)]
    ]_vars

\* the first speaker of the second cycle is generating: the cycle before
\* ended with the moderator and started with the same regular persona, the
\* list having been shuffled in between
C40_Witness ==
  /\ pc = "generate"
  /\ allPersonaFiles = <<AliceFile, BobFile, ModeratorFile>>
  /\ cyclesDone = 1
  /\ personaIndex = 1
  /\ cycleLog = <<BobFile>>
  /\ personas = <<BobFile, AliceFile, ModeratorFile>>

(***************************************************************************)
(* Supporters of the shortlist options                                     *)
(***************************************************************************)
\* C33 as stated, a supporter of an option being a persona speaker with a
\* recent turn that contains an agreement phrase and the option's
\* normalized text, a turn that names two options supporting both: in the
\* decide stage a decision is locked whenever some shortlist option has 2 or
\* more such supporters.
C33_TurnSupportsEveryOptionNamed ==
  (probe.op = "eval" /\ probe.done /\ probe.state.stage = "decide"
     /\ Len(probe.state.shortlist_options) >= 2)
    => LET entries == probe.state.shortlist_options
           recent == PersonaTurnsOf(probe.turns, EvalSpeakers)
           supporters(k) == { recent[n].speaker : n \in
                                { m \in 1..Len(recent) :
                                    /\ ContainsAnyWord(recent[m].content, agreementPhrases)
                                    /\ Includes(normalizeOption(recent[m].content),
                                                normalizeOption(entries[k])) } }
       IN  (\E k \in 1..Len(entries) : Cardinality(supporters(k)) >= 2)
             <=> probe.out.locked_decision # NullDecision

\* C33: in the decide stage a recent persona turn with an agreement phrase
\* supports one option only, the first in shortlist order whose normalized
\* text it contains, also when it contains the text of two options.  A
\* decision is locked exactly when some option has 2 or more distinct
\* speakers among the turns that support it, and the locked option is one
\* that has.
C33_TurnSupportsFirstOptionNamed ==
  (probe.op = "eval" /\ probe.done /\ probe.state.stage = "decide"
     /\ Len(probe.state.shortlist_options) >= 2)
    => LET entries == probe.state.shortlist_options
           recent == PersonaTurnsOf(probe.turns, EvalSpeakers)
           agrees(m) == ContainsAnyWord(recent[m].content, agreementPhrases)
           names(m, k) == Includes(normalizeOption(recent[m].content),
                                   normalizeOption(entries[k]))
           supports(m, k) == /\ agrees(m) /\ names(m, k)
                             /\ \A j \in 1..Len(entries) : names(m, j) => k <= j
           supporters(k) == { recent[m].speaker : m \in
                                { n \in 1..Len(recent) : supports(n, k) } }
       IN  /\ (\E k \in 1..Len(entries) : Cardinality(supporters(k)) >= 2)
                <=> probe.out.locked_decision # NullDecision
           /\ probe.out.locked_decision # NullDecision
                => \E k \in 1..Len(entries) :
                     /\ probe.out.locked_decision = <<entries[k]>>
                     /\ Cardinality(supporters(k)) >= 2

\* two speakers agree and name the second option, one of them naming the
\* first option in the same turn, and no other turn agrees: nothing is
\* locked
C33_Witness ==
  /\ probe.op = "eval" /\ probe.done
  /\ probe.state.stage = "decide"
  /\ Len(probe.state.shortlist_options) = 2
  /\ Len(probe.turns) = 2
  /\ probe.turns[1].speaker # probe.turns[2].speaker
  /\ \A i \in 1..2 :
       /\ probe.turns[i].speaker \in EvalSpeakers
       /\ ContainsAnyWord(probe.turns[i].content, agreementPhrases)
       /\ Includes(normalizeOption(probe.turns[i].content),
                   normalizeOption(probe.state.shortlist_options[2]))
  /\ Includes(normalizeOption(probe.turns[1].content),
              normalizeOption(probe.state.shortlist_options[1]))
  /\ ~Includes(normalizeOption(probe.turns[2].content),
               normalizeOption(probe.state.shortlist_options[1]))
  /\ probe.out.locked_decision = NullDecision
  /\ probe.out.stage = "decide"

\* C34: in the decide stage, when several shortlist options have the same
\* highest number of distinct supporters, 2 or more, the locked decision is
\* the first of them in shortlist order; which turns come first plays no
\* part, the supporters being counted over the set of the recent persona
\* turns.
C34_TieGoesToFirstInShortlist ==
  (probe.op = "eval" /\ probe.done /\ probe.state.stage = "decide"
     /\ Len(probe.state.shortlist_options) >= 2)
    => LET entries == probe.state.shortlist_options
           said == { probe.turns[n] : n \in { m \in 1..Len(probe.turns) :
                                               probe.turns[m].speaker \in EvalSpeakers } }
           supporters(k) == { t.speaker : t \in
                                { u \in said :
                                    /\ ContainsAnyWord(u.content, agreementPhrases)
                                    /\ MatchedOption(u.content, entries) = k } }
           top == { k \in 1..Len(entries) :
                      /\ Cardinality(supporters(k)) >= 2
                      /\ \A j \in 1..Len(entries) :
                           Cardinality(supporters(j)) <= Cardinality(supporters(k)) }
       IN  Cardinality(top) >= 2
             => /\ probe.out.stage = "next_action"
                /\ probe.out.locked_decision
                     = <<entries[CHOOSE k \in top : \A j \in top : k <= j]>>

\* four votes, the first two by two speakers for the second option and the
\* last two by the same speakers for the first option: the first option is
\* locked
C34_Witness ==
  /\ probe.op = "eval" /\ probe.done
  /\ probe.state.stage = "decide"
  /\ Len(probe.turns) = 4
  /\ \A i \in 1..4 : ContainsAnyWord(probe.turns[i].content, agreementPhrases)
  /\ probe.turns[1].speaker # probe.turns[2].speaker
  /\ probe.turns[3].speaker # probe.turns[4].speaker
  /\ \A i \in 1..2 :
       MatchedOption(probe.turns[i].content, probe.state.shortlist_options) = 2
  /\ \A i \in 3..4 :
       MatchedOption(probe.turns[i].content, probe.state.shortlist_options) = 1
  /\ probe.out.stage = "next_action"
  /\ probe.out.locked_decision = <<probe.state.shortlist_options[1]>>

C36_StageMovesOneStepForward ==
  [][LET before == IndexOf(WORKFLOW_STAGES, workflowState.stage)
         after == IndexOf(WORKFLOW_STAGES, workflowState'.stage)
         fresh == /\ pc = "top"
                  /\ \A i \in 1..Len(file) : file[i].speaker \notin personaSpeakers
     IN  /\ after # before
              => \/ fresh /\ workflowState'.stage = "brainstorm"
                 \/ pc # "top" /\ pc' = "top" /\ evaluated' /\ after = before + 1
         /\ (workflowState'.stage = "brainstorm" /\ workflowState.stage # "brainstorm")
              => fresh
         /\ (pc # "top" /\ pc' = "top" /\ evaluated') => after \in {before, before + 1}
    ]_vars

\* a run from the initial workflow state has passed through every stage and
\* its last evaluation moved it from decide to next_action
C36_Witness ==
  /\ pc = "top"
  /\ evaluated
  /\ allPersonaFiles = <<AliceFile, BobFile>>
  /\ workflowState.stage = "next_action"
  /\ workflowState.last_transition_reason = ReasonAgreed
  /\ workflowState.cycle_count_in_stage = 0
  /\ file # <<>>
  /\ file[Len(file)] = WorkflowTurn(workflowState)

\* C37: in a run from the initial workflow state, and in a run resumed from
\* a state such a run has saved, a decision is locked exactly when the
\* stage is next_action, the locked decision is one of the entries of the
\* shortlist, and a step changes a locked decision in one way only: the
\* head of an iteration that reads a history without a persona turn clears
\* it.
C37_LockedDecisionStable ==
  /\ [](workflowState.locked_decision # NullDecision
          <=> workflowState.stage = "next_action")
  /\ [](workflowState.locked_decision # NullDecision
          => \E k \in 1..Len(workflowState.shortlist_options) :
               workflowState.locked_decision = <<workflowState.shortlist_options[k]>>)
  /\ [][(workflowState.locked_decision # NullDecision
           /\ workflowState'.locked_decision # workflowState.locked_decision)
          => /\ pc = "top"
             /\ \A i \in 1..Len(file) : file[i].speaker \notin personaSpeakers
             /\ workflowState'.locked_decision = NullDecision
             /\ workflowState'.stage = "brainstorm"
     ]_vars

\* a run from the initial workflow state locked the first entry of its
\* shortlist at its fourth evaluation and went on for one more cycle
C37_Witness ==
  /\ pc = "top"
  /\ allPersonaFiles = <<AliceFile, BobFile>>
  /\ cyclesDone = 9
  /\ ~evaluated
  /\ workflowState.stage = "next_action"
  /\ Len(workflowState.shortlist_options) >= 2
  /\ workflowState.locked_decision = <<workflowState.shortlist_options[1]>>
  /\ workflowState.cycle_count_in_stage = 1
  /\ wfFile.locked_decision = workflowState.locked_decision

\* C38 as stated, for the runs that start from the initial workflow state
\* (a step from a state of the stated shape leads to a state of that shape,
\* the initial state having it): the shortlist is empty while the stage is
\* brainstorm or cluster and holds 2 or 3 entries while it is shortlist,
\* decide or next_action, and once set it changes only by being cut to its
\* first 2 entries, short of the fresh-run reset.
C38_ShortlistEmptyUntilShortlistStage ==
  [][((workflowState.stage \in {"brainstorm", "cluster"}
         => workflowState.shortlist_options = <<>>)
      /\ (workflowState.stage \in {"shortlist", "decide", "next_action"}
            => Len(workflowState.shortlist_options) \in {2, 3}))
       => /\ workflowState'.stage \in {"brainstorm", "cluster"}
               => workflowState'.shortlist_options = <<>>
          /\ workflowState'.stage \in {"shortlist", "decide", "next_action"}
               => Len(workflowState'.shortlist_options) \in {2, 3}
          /\ (workflowState.shortlist_options # <<>>
                /\ workflowState'.shortlist_options # workflowState.shortlist_options)
               => \/ workflowState'.shortlist_options
                       = SubSeq(workflowState.shortlist_options, 1, 2)
                  \/ pc = "top" /\ workflowState'.shortlist_options = <<>>
    ]_vars

\* C38: for the runs that start from the initial workflow state (a step
\* from a state of the shape below leads to a state of that shape, the
\* initial state having it): the shortlist is empty while the stage is
\* brainstorm, holds at most 1 entry while it is cluster and 2 or 3 entries
\* while it is shortlist, decide or next_action.  Every evaluation in the
\* cluster stage that finds 4 or more options in the pool, or 2 or more
\* cycles counted, stores the first 3 options of the pool (or fewer) as the
\* shortlist, whether or not the stage moves on.  Apart from that the
\* shortlist changes only by the forced narrowing of the decide stage, to
\* its first 2 entries, and by the fresh-run reset, to empty.
C38_ShortlistShape ==
  [][((workflowState.stage = "brainstorm" => workflowState.shortlist_options = <<>>)
      /\ (workflowState.stage = "cluster" => Len(workflowState.shortlist_options) <= 1)
      /\ (workflowState.stage \in {"shortlist", "decide", "next_action"}
            => Len(workflowState.shortlist_options) \in {2, 3}))
       => LET pool == workflowState'.candidate_options
              evaluates == pc # "top" /\ pc' = "top" /\ evaluated'
              due == /\ evaluates
                     /\ workflowState.stage = "cluster"
                     /\ \/ Len(pool) >= 4
                        \/ workflowState.cycle_count_in_stage + 1 >= 2
          IN  /\ workflowState'.stage = "brainstorm"
                   => workflowState'.shortlist_options = <<>>
              /\ workflowState'.stage = "cluster"
                   => Len(workflowState'.shortlist_options) <= 1
              /\ workflowState'.stage \in {"shortlist", "decide", "next_action"}
                   => Len(workflowState'.shortlist_options) \in {2, 3}
              /\ due => workflowState'.shortlist_options
                          = SubSeq(pool, 1, Min2(3, Len(pool)))
              /\ (~due /\ workflowState'.shortlist_options # workflowState.shortlist_options)
                   => \/ /\ evaluates
                         /\ workflowState.stage = "decide"
                         /\ workflowState'.stage = "decide"
                         /\ Len(workflowState.shortlist_options) = 3
                         /\ workflowState'.shortlist_options
                              = SubSeq(workflowState.shortlist_options, 1, 2)
                      \/ /\ pc = "top"
                         /\ \A i \in 1..Len(file) : file[i].speaker \notin personaSpeakers
                         /\ workflowState'.shortlist_options = <<>>
    ]_vars

\* a run from the initial workflow state is in the cluster stage and its
\* last evaluation, finding one option in the pool, stored a shortlist of
\* that one option
C38_Witness ==
  /\ pc = "top"
  /\ evaluated
  /\ allPersonaFiles = <<AliceFile, BobFile>>
  /\ workflowState.stage = "cluster"
  /\ Len(workflowState.candidate_options) = 1
  /\ workflowState.shortlist_options = workflowState.candidate_options
  /\ workflowState.last_transition_reason = ReasonNotEnough

\* C39: while the history holds no persona turn it holds, once an iteration
\* has begun, exactly one Workflow turn, the initial announcement, however
\* many iterations have ended without a turn.  A Workflow turn is appended
\* by two steps only: the head of an iteration that reads a history with
\* neither a persona turn nor a Workflow turn, and the end of an iteration
\* whose evaluation moved the stage to the next one.  Since an empty history
\* was read, at most one Workflow turn has been appended for the initial
\* state and one for each stage passed: 5 at most.
C39_WorkflowTurnsBounded ==
  /\ []((file # <<>> /\ ~HasPersonaHistory(file))
          => /\ Len(SelectSeq(file, LAMBDA t : t.speaker = WorkflowName)) = 1
             /\ workflowTurns = 1)
  /\ [](workflowTurns <= 1 + IndexOf(WORKFLOW_STAGES, workflowState.stage)
          /\ workflowTurns <= 5)
  /\ [][workflowTurns' # workflowTurns
          => \/ /\ pc = "top"
                /\ ~HasPersonaHistory(file)
                /\ \A i \in 1..Len(file) : file[i].speaker # WorkflowName
                /\ workflowTurns' = 1
                /\ workflowState'.stage = "brainstorm"
             \/ /\ pc # "top" /\ pc' = "top" /\ evaluated'
                /\ workflowTurns' = workflowTurns + 1
                /\ IndexOf(WORKFLOW_STAGES, workflowState'.stage)
                     = IndexOf(WORKFLOW_STAGES, workflowState.stage) + 1
                /\ file'[Len(file')] = WorkflowTurn(workflowState')
     ]_vars

\* a run that began on an empty history has passed every stage: five
\* Workflow turns were appended, the last one for next_action
C39_Witness ==
  /\ pc = "top"
  /\ workflowTurns = 5
  /\ workflowState.stage = "next_action"
  /\ allPersonaFiles = <<AliceFile, BobFile>>
  /\ file[Len(file)] = WorkflowTurn(workflowState)

(***************************************************************************)
(* reset.sh run beside the loop (src/reset.sh, lines 1-15): rm -f of        *)
(* conversation.log, conversation.json (FILE) and context/plan.txt.  Only   *)
(* FILE is state of the loop; the script does not touch                     *)
(* WORKFLOW_STATE_FILE.  probe remembers that the script ran and where the  *)
(* loop was.                                                                *)
(***************************************************************************)
\* runs of reset.sh followed
MaxResets == 1

Reset ==
  /\ \/ probe.op = "none"
     \/ probe.op = "reset" /\ probe.count < MaxResets
  /\ file' = <<>>
  /\ probe' = [op |-> "reset", at |-> pc,
               count |-> IF probe.op = "none" THEN 1 ELSE probe.count + 1]
  /\ UNCHANGED <<backend, allPersonaFiles, advisorFile, lastAdvisorTime, wfFile, personas,
                 personaIndex, workflowState, pendingWorkflowCycles, pc, turns, speaker,
                 cycleCompletedThisTurn, attempt, accepted, historyVars>>

\* a resumed conversation of one regular persona and the moderator
ResetInit ==
  /\ StartAt([backend |-> {RespBlank, NO_INTERVENTION, RespIdeas},
              dir |-> <<AliceFile, ModeratorFile>>, file |-> ResumedFile,
              workflow |-> ResumedDecide, advisor |-> <<>>], <<>>)
  /\ probe = [op |-> "none"]

SpecReset == ResetInit /\ [][Next \/ Reset]_vars

\* C31: once reset.sh has deleted the history, the next step that writes
\* it is the head of an iteration, and it starts a fresh run: the workflow
\* state is the initial one and the history written is the seed followed by
\* the initial Workflow announcement.  No step writes back a history read
\* before the deletion, wherever the loop was when the script ran.
C31_ResetStartsFreshRun ==
  [][(probe.op = "reset" /\ file = <<>> /\ file' # <<>>)
       => /\ pc = "top"
          /\ workflowState' = defaultWorkflowState
          /\ pendingWorkflowCycles' = 0
          /\ Len(file') >= 2
          /\ file'[1].speaker = SeedName
          /\ file'[2] = WorkflowTurn(defaultWorkflowState)
          /\ ~HasPersonaHistory(file')
    ]_vars

====
